---- MODULE Spec2Model ----
(***************************************************************************)
(* Schema resolution and caching pipeline of rudder (src-tauri/src/schema  *)
(* and src-tauri/src/db): the orchestrator get_schema_for_chart, the cache *)
(* check, repository discovery, the search loop over repositories, the     *)
(* chart pull, the helm-values schema generation and the SQLite store.     *)
(***************************************************************************)
EXTENDS Integers, Sequences, FiniteSets

(***************************************************************************)
(* serde_json::Value.  A value is a tagged tuple; an object carries its    *)
(* members as a sequence of <<key, value>> pairs in key order, the order   *)
(* serde_json's Map (a BTreeMap) keeps them in.                            *)
(***************************************************************************)
JNull == <<"null">>
JBool(b) == <<"bool", b>>
JInt(n) == <<"int", n>>
JStr(s) == <<"str", s>>
\* A number that is not an i64; the payload is its digits.
JFloat(d) == <<"float", d>>
JArr(items) == <<"arr", items>>
JObj(members) == <<"obj", members>>

IsObject(v) == v[1] = "obj"

\* Member names the model uses, in byte order (the order of a BTreeMap).
KeyOrder ==
    <<"default", "enabled", "items", "name", "ports", "properties", "replicas", "type">>

KeyRank(k) == CHOOSE i \in 1..Len(KeyOrder) : KeyOrder[i] = k

\* serde_json::Map::insert: replaces the value of an existing key, otherwise
\* inserts the member at its place in key order.
RECURSIVE MapInsert(_, _, _)
MapInsert(members, k, v) ==
    IF members = <<>> THEN << <<k, v>> >>
    ELSE IF Head(members)[1] = k THEN << <<k, v>> >> \o Tail(members)
    ELSE IF KeyRank(k) < KeyRank(Head(members)[1]) THEN << <<k, v>> >> \o members
    ELSE <<Head(members)>> \o MapInsert(Tail(members), k, v)

\* serde_json::Value::get(key): the member of an object, None for a missing
\* member and for every value that is not an object.
HasMember(v, k) == IsObject(v) /\ \E i \in 1..Len(v[2]) : v[2][i][1] = k

Member(v, k) == v[2][CHOOSE i \in 1..Len(v[2]) : v[2][i][1] = k][2]

(***************************************************************************)
(* JSON text, as a sequence of tokens.  serde_json::to_string writes a     *)
(* value as text and serde_json::from_str reads text back, failing on text *)
(* that is not JSON.                                                       *)
(***************************************************************************)
Punct(c) == <<"p", c>>
TStr(s) == <<"s", s>>
TInt(n) == <<"n", n>>
TFloat(d) == <<"f", d>>
TLit(w) == <<"w", w>>

RECURSIVE to_string(_)
RECURSIVE members_to_string(_)
RECURSIVE items_to_string(_)
members_to_string(members) ==
    IF members = <<>> THEN <<>>
    ELSE <<TStr(Head(members)[1]), Punct(":")>> \o to_string(Head(members)[2])
         \o (IF Tail(members) = <<>> THEN <<>> ELSE <<Punct(",")>>)
         \o members_to_string(Tail(members))

items_to_string(items) ==
    IF items = <<>> THEN <<>>
    ELSE to_string(Head(items))
         \o (IF Tail(items) = <<>> THEN <<>> ELSE <<Punct(",")>>)
         \o items_to_string(Tail(items))

to_string(v) ==
    CASE v[1] = "null" -> <<TLit("null")>>
      [] v[1] = "bool" -> <<TLit(IF v[2] THEN "true" ELSE "false")>>
      [] v[1] = "int" -> <<TInt(v[2])>>
      [] v[1] = "float" -> <<TFloat(v[2])>>
      [] v[1] = "str" -> <<TStr(v[2])>>
      [] v[1] = "arr" -> <<Punct("[")>> \o items_to_string(v[2]) \o <<Punct("]")>>
      [] v[1] = "obj" -> <<Punct("{")>> \o members_to_string(v[2]) \o <<Punct("}")>>

\* The parser returns <<ok, value, rest>>: whether a value was read, the
\* value, and the tokens after it.
ParseFail == <<FALSE, JNull, <<>> >>

RECURSIVE ParseValue(_)
RECURSIVE ParseMembers(_, _)
RECURSIVE ParseItems(_, _)
ParseMembers(toks, acc) ==
    IF Len(toks) < 3 \/ toks[1][1] # "s" \/ toks[2] # Punct(":") THEN ParseFail
    ELSE LET r == ParseValue(SubSeq(toks, 3, Len(toks)))
             acc2 == MapInsert(acc, toks[1][2], r[2])
         IN  IF ~r[1] \/ r[3] = <<>> THEN ParseFail
             ELSE IF r[3][1] = Punct("}") THEN <<TRUE, JObj(acc2), Tail(r[3])>>
             ELSE IF r[3][1] = Punct(",") THEN ParseMembers(Tail(r[3]), acc2)
             ELSE ParseFail

ParseItems(toks, acc) ==
    LET r == ParseValue(toks)
    IN  IF ~r[1] \/ r[3] = <<>> THEN ParseFail
        ELSE IF r[3][1] = Punct("]") THEN <<TRUE, JArr(Append(acc, r[2])), Tail(r[3])>>
        ELSE IF r[3][1] = Punct(",") THEN ParseItems(Tail(r[3]), Append(acc, r[2]))
        ELSE ParseFail

ParseValue(toks) ==
    IF toks = <<>> THEN ParseFail
    ELSE LET t == Head(toks)
             rest == Tail(toks)
         IN  CASE t[1] = "w" ->
                    IF t[2] = "null" THEN <<TRUE, JNull, rest>>
                    ELSE IF t[2] = "true" THEN <<TRUE, JBool(TRUE), rest>>
                    ELSE IF t[2] = "false" THEN <<TRUE, JBool(FALSE), rest>>
                    ELSE ParseFail
               [] t[1] = "n" -> <<TRUE, JInt(t[2]), rest>>
               [] t[1] = "f" -> <<TRUE, JFloat(t[2]), rest>>
               [] t[1] = "s" -> <<TRUE, JStr(t[2]), rest>>
               [] t = Punct("[") ->
                    IF rest # <<>> /\ rest[1] = Punct("]")
                    THEN <<TRUE, JArr(<<>>), Tail(rest)>>
                    ELSE ParseItems(rest, <<>>)
               [] t = Punct("{") ->
                    IF rest # <<>> /\ rest[1] = Punct("}")
                    THEN <<TRUE, JObj(<<>>), Tail(rest)>>
                    ELSE ParseMembers(rest, <<>>)
               [] OTHER -> ParseFail

\* serde_json::from_str: the whole text must be one value.
from_str_ok(text) == LET r == ParseValue(text) IN r[1] /\ r[3] = <<>>

from_str(text) == ParseValue(text)[2]

(***************************************************************************)
(* Results and options.                                                    *)
(***************************************************************************)
Ok(v) == <<"Ok", v>>
Err(msg) == <<"Err", msg>>
IsOk(r) == r[1] = "Ok"
IsErr(r) == r[1] = "Err"
None == <<"None">>
Some(v) == <<"Some", v>>
IsSome(o) == o[1] = "Some"

(***************************************************************************)
(* Error messages are sequences of text fragments: the pieces of the       *)
(* format! template and the values put into it.  Contains(s, needle) is    *)
(* str::contains on one fragment: the bytes of needle, in a row, anywhere  *)
(* in s.                                                                   *)
(***************************************************************************)
Contains(s, needle) ==
    \E i \in 1..(Len(s) - Len(needle) + 1) : SubSeq(s, i, i + Len(needle) - 1) = needle

MsgContains(msg, needle) == \E i \in 1..Len(msg) : Contains(msg[i], needle)

\* utils.rs: is_network_error
is_network_error_no_connection(error_msg) ==
    MsgContains(error_msg, "timeout") \/ MsgContains(error_msg, "network")

\* The variant that looks at what the tool said only, the last fragment.
is_network_error_diagnostic_only(error_msg) ==
    /\ error_msg # <<>>
    /\ \/ Contains(error_msg[Len(error_msg)], "timeout")
       \/ Contains(error_msg[Len(error_msg)], "network")
       \/ Contains(error_msg[Len(error_msg)], "connection")

is_network_error(error_msg) ==
    \/ MsgContains(error_msg, "timeout")
    \/ MsgContains(error_msg, "network")
    \/ MsgContains(error_msg, "connection")

(***************************************************************************)
(* The canonical empty schema.                                             *)
(***************************************************************************)
create_empty_schema ==
    JObj(<< <<"properties", JObj(<<>>)>>, <<"type", JStr("object")>> >>)

(***************************************************************************)
(* helm_values.rs: the schema generated from the values of a release.      *)
(***************************************************************************)
\* The variant that types every scalar as a string.
TypedDefault_string(ty, val) == JObj(<< <<"default", val>>, <<"type", JStr("string")>> >>)

TypedDefault(ty, val) == JObj(<< <<"default", val>>, <<"type", JStr(ty)>> >>)

RECURSIVE generate_schema_from_value(_)
RECURSIVE PropertiesOf(_, _)
\* The loop over the members of the map (helm_values.rs:64-118).
PropertiesOf(members, properties) ==
    IF members = <<>> THEN properties
    ELSE LET key == Head(members)[1]
             val == Head(members)[2]
             prop_schema ==
                CASE val[1] = "str" -> TypedDefault("string", val)
                  [] val[1] = "int" -> TypedDefault("integer", val)
                  [] val[1] = "float" -> TypedDefault("number", val)
                  [] val[1] = "bool" -> TypedDefault("boolean", val)
                  [] val[1] = "arr" ->
                        IF val[2] = <<>>
                        THEN JObj(<< <<"default", val>>,
                                     <<"items", JObj(<< <<"type", JStr("string")>> >>)>>,
                                     <<"type", JStr("array")>> >>)
                        ELSE JObj(<< <<"default", val>>,
                                     <<"items", generate_schema_from_value(val[2][1])>>,
                                     <<"type", JStr("array")>> >>)
                  [] val[1] = "obj" ->
                        JObj(<< <<"default", val>>,
                                <<"properties", generate_schema_from_value(val)>>,
                                <<"type", JStr("object")>> >>)
                  [] val[1] = "null" -> TypedDefault("string", JNull)
         IN  PropertiesOf(Tail(members), MapInsert(properties, key, prop_schema))

\* The variant that does not look into the members of a nested object.
generate_schema_from_value_one_level(value) ==
    IF IsObject(value) /\ \A i \in 1..Len(value[2]) : ~IsObject(value[2][i][2])
    THEN JObj(PropertiesOf(value[2], <<>>))
    ELSE JObj(<<>>)

generate_schema_from_value(value) ==
    IF IsObject(value) THEN JObj(PropertiesOf(value[2], <<>>)) ELSE JObj(<<>>)

\* The answer of `helm get values`: <<"err", e>> when the command could not
\* be run, <<"exit", stderr>> for a non-zero exit, <<"ok", stdout>>.
generate_schema_from_helm_values(release_name, namespace, output) ==
    CASE output[1] = "err" -> Err(<<"Failed to get helm values: ", output[2]>>)
      [] output[1] = "exit" -> Err(<<"Failed to get helm values: ", output[2]>>)
      [] output[1] = "ok" ->
            IF ~from_str_ok(output[2])
            THEN Err(<<"Failed to parse helm values: ", "expected value">>)
            ELSE Ok(JObj(<< <<"properties", generate_schema_from_value(from_str(output[2]))>>,
                           <<"type", JStr("object")>> >>))

(***************************************************************************)
(* chart_operations.rs and search.rs: one repository.  The answer of helm  *)
(* for one repository is a record: search and pull are <<"err", e>>,       *)
(* <<"exit", stderr>> or <<"ok">>, file is <<"missing">> or                *)
(* <<"text", t>>, the content of values.schema.json.                       *)
(***************************************************************************)
\* The variant that reports a chart without a readable schema as an error.
pull_chart_and_extract_schema_strict(repo_name, chart_name, chart_version, helm) ==
    CASE helm.pull[1] = "ok" ->
            IF helm.file[1] = "text" /\ from_str_ok(helm.file[2])
            THEN Ok(from_str(helm.file[2]))
            ELSE Err(<<"No schema in chart ", repo_name, "/", chart_name>>)
      [] helm.pull[1] = "exit" ->
            Err(<<"Failed to pull chart ", repo_name, "/", chart_name, " version ",
                  chart_version, ": ", helm.pull[2]>>)
      [] helm.pull[1] = "err" -> Err(<<"Failed to execute helm pull: ", helm.pull[2]>>)

pull_chart_and_extract_schema(repo_name, chart_name, chart_version, helm) ==
    CASE helm.pull[1] = "ok" ->
            IF helm.file[1] = "text"
            THEN Ok(IF from_str_ok(helm.file[2]) THEN from_str(helm.file[2])
                    ELSE create_empty_schema)
            ELSE Ok(create_empty_schema)
      [] helm.pull[1] = "exit" ->
            Err(<<"Failed to pull chart ", repo_name, "/", chart_name, " version ",
                  chart_version, ": ", helm.pull[2]>>)
      [] helm.pull[1] = "err" -> Err(<<"Failed to execute helm pull: ", helm.pull[2]>>)

\* The working directory "temp-charts" is the set of <<chart_name, file>>,
\* one for each chart directory in it, file being what values.schema.json
\* of that directory holds.  No chart directory, no "temp-charts".
HasChartDir(dir, chart_name) == \E e \in dir : e[1] = chart_name

\* `helm pull --untar --destination temp-charts` refuses a chart whose
\* directory is already there, touching nothing.
PullPossible(dir, chart_name, helm) ==
    HasChartDir(dir, chart_name) => (helm.pull[1] # "ok" /\ ~helm.left)

\* What helm pull leaves in the directory: the chart when it succeeds, and
\* a chart directory without schema file when it fails after creating it.
helm_pull(dir, chart_name, helm) ==
    CASE helm.pull[1] = "ok" -> dir \cup {<<chart_name, helm.file>>}
      [] helm.pull[1] = "exit" /\ helm.left -> dir \cup {<<chart_name, <<"missing">>>>}
      [] OTHER -> dir

\* fs::remove_dir_all("temp-charts") (chart_operations.rs:70, 77)
remove_dir_all(dir) == {}

\* What is left of "temp-charts" when pull_chart_and_extract_schema returns
\* (chart_operations.rs:53-90).
temp_charts_after_pull(dir, chart_name, helm) ==
    IF helm.pull[1] = "ok" THEN remove_dir_all(helm_pull(dir, chart_name, helm))
    ELSE helm_pull(dir, chart_name, helm)

\* ... and when try_repo_for_chart returns (search.rs:57-70).
temp_charts_after_try(dir, chart_name, helm) ==
    IF helm.search[1] = "ok" THEN temp_charts_after_pull(dir, chart_name, helm) ELSE dir

\* The variant that pulls without looking at the answer of the search.
try_repo_for_chart_pull_first(repo_name, chart_name, chart_version, helm) ==
    pull_chart_and_extract_schema(repo_name, chart_name, chart_version, helm)

try_repo_for_chart(repo_name, chart_name, chart_version, helm) ==
    CASE helm.search[1] = "ok" ->
            pull_chart_and_extract_schema(repo_name, chart_name, chart_version, helm)
      [] helm.search[1] = "exit" ->
            Err(<<"Chart ", repo_name, "/", chart_name, " version ", chart_version,
                  " not found in repository: ", helm.search[2]>>)
      [] helm.search[1] = "err" -> Err(<<"Failed to execute helm search: ", helm.search[2]>>)

(***************************************************************************)
(* utils.rs: get_available_repos.  The answer of `helm repo list` is       *)
(* <<"err">>, <<"exit">> or <<"ok", lines>>, each line the sequence of its *)
(* whitespace-separated words (a blank line has none).                     *)
(***************************************************************************)
RECURSIVE FirstWords(_)
FirstWords(lines) ==
    IF lines = <<>> THEN <<>>
    ELSE IF Head(lines) = <<>> THEN FirstWords(Tail(lines))
    ELSE <<Head(lines)[1]>> \o FirstWords(Tail(lines))

\* The variant that takes the requested repository for granted when the
\* listing fails.
get_available_repos_assume_requested(requested_repo, output) ==
    IF output[1] = "ok"
    THEN LET available_repos ==
                 IF output[2] = <<>> THEN <<>> ELSE FirstWords(Tail(output[2]))
         IN  <<available_repos,
               \E i \in 1..Len(available_repos) : available_repos[i] = requested_repo>>
    ELSE <<<<requested_repo>>, TRUE>>

\* <<available_repos, requested_repo_exists>>
get_available_repos(requested_repo, output) ==
    IF output[1] = "ok"
    THEN LET available_repos ==
                 IF output[2] = <<>> THEN <<>> ELSE FirstWords(Tail(output[2]))
         IN  <<available_repos,
               \E i \in 1..Len(available_repos) : available_repos[i] = requested_repo>>
    ELSE <<<<>>, FALSE>>

(***************************************************************************)
(* db/schemas.rs: the chart_schemas table, a set of rows.  A row is        *)
(* [chart_name, chart_version, repo_name, namespace, schema_content,       *)
(* created_at], the content kept as JSON text, created_at the second the   *)
(* row was written in (`now`).  `fails` is SQLite refusing the statement.  *)
(***************************************************************************)
SameKey(row, chart_name, chart_version, repo_name) ==
    /\ row.chart_name = chart_name
    /\ row.chart_version = chart_version
    /\ row.repo_name = repo_name

\* INSERT OR REPLACE under UNIQUE(chart_name, chart_version, repo_name):
\* <<result, table afterwards>>
store_chart_schema_insert_only(table, chart_name, chart_version, repo_name, namespace, schema_content, now, fails) ==
    IF fails THEN <<Err(<<"Failed to store schema: ", "disk I/O error">>), table>>
    ELSE <<Ok(<<>>),
           table \cup {[chart_name |-> chart_name, chart_version |-> chart_version,
                        repo_name |-> repo_name, namespace |-> namespace,
                        schema_content |-> to_string(schema_content),
                        created_at |-> now]}>>

\* The variant of a cache with room for one entry: a write evicts the rest.
store_chart_schema_single_entry(table, chart_name, chart_version, repo_name, namespace, schema_content, now, fails) ==
    IF fails THEN <<Err(<<"Failed to store schema: ", "disk I/O error">>), table>>
    ELSE <<Ok(<<>>),
           {[chart_name |-> chart_name, chart_version |-> chart_version,
             repo_name |-> repo_name, namespace |-> namespace,
             schema_content |-> to_string(schema_content),
             created_at |-> now]}>>

\* The variant with the namespace in the key: UNIQUE(chart_name,
\* chart_version, repo_name, namespace).
store_chart_schema_per_namespace(table, chart_name, chart_version, repo_name, namespace, schema_content, now, fails) ==
    IF fails THEN <<Err(<<"Failed to store schema: ", "disk I/O error">>), table>>
    ELSE <<Ok(<<>>),
           {row \in table : ~(/\ SameKey(row, chart_name, chart_version, repo_name)
                              /\ row.namespace = namespace)}
             \cup {[chart_name |-> chart_name, chart_version |-> chart_version,
                    repo_name |-> repo_name, namespace |-> namespace,
                    schema_content |-> to_string(schema_content),
                    created_at |-> now]}>>

\* The variant that keeps the row a key already has (INSERT OR IGNORE).
store_chart_schema_keep_first(table, chart_name, chart_version, repo_name, namespace, schema_content, now, fails) ==
    IF fails THEN <<Err(<<"Failed to store schema: ", "disk I/O error">>), table>>
    ELSE IF \E row \in table : SameKey(row, chart_name, chart_version, repo_name)
    THEN <<Ok(<<>>), table>>
    ELSE <<Ok(<<>>),
           table \cup {[chart_name |-> chart_name, chart_version |-> chart_version,
                        repo_name |-> repo_name, namespace |-> namespace,
                        schema_content |-> to_string(schema_content),
                        created_at |-> now]}>>

store_chart_schema(table, chart_name, chart_version, repo_name, namespace, schema_content, now, fails) ==
    IF fails THEN <<Err(<<"Failed to store schema: ", "disk I/O error">>), table>>
    ELSE <<Ok(<<>>),
           {row \in table : ~SameKey(row, chart_name, chart_version, repo_name)}
             \cup {[chart_name |-> chart_name, chart_version |-> chart_version,
                    repo_name |-> repo_name, namespace |-> namespace,
                    schema_content |-> to_string(schema_content),
                    created_at |-> now]}>>

\* The variant that reads a row whose content does not parse as no row.
get_chart_schema_lenient(table, chart_name, chart_version, repo_name, fails) ==
    LET rows == {row \in table : /\ SameKey(row, chart_name, chart_version, repo_name)
                                 /\ from_str_ok(row.schema_content)}
    IN  IF fails THEN Err(<<"Failed to prepare query: ", "disk I/O error">>)
        ELSE IF rows = {} THEN Ok(None)
        ELSE LET row == CHOOSE row \in rows : TRUE
             IN  Ok(Some([row EXCEPT !.schema_content = from_str(row.schema_content)]))

\* The variant that forgets the namespace column.
get_chart_schema_no_namespace(table, chart_name, chart_version, repo_name, fails) ==
    LET rows == {row \in table : SameKey(row, chart_name, chart_version, repo_name)}
    IN  IF fails THEN Err(<<"Failed to prepare query: ", "disk I/O error">>)
        ELSE IF \E row \in rows : ~from_str_ok(row.schema_content)
        THEN Err(<<"Failed to collect results: ", "Invalid column type">>)
        ELSE IF rows = {} THEN Ok(None)
        ELSE LET row == CHOOSE row \in rows : TRUE
             IN  Ok(Some([row EXCEPT !.schema_content = from_str(row.schema_content),
                                     !.namespace = None]))

\* Ok(None), Ok(Some(ChartSchema)) with the content parsed, or Err.
get_chart_schema(table, chart_name, chart_version, repo_name, fails) ==
    LET rows == {row \in table : SameKey(row, chart_name, chart_version, repo_name)}
    IN  IF fails THEN Err(<<"Failed to prepare query: ", "disk I/O error">>)
        ELSE IF \E row \in rows : ~from_str_ok(row.schema_content)
        THEN Err(<<"Failed to collect results: ", "Invalid column type">>)
        ELSE IF rows = {} THEN Ok(None)
        ELSE LET row == CHOOSE row \in rows : TRUE
             IN  Ok(Some([row EXCEPT !.schema_content = from_str(row.schema_content)]))

\* The orders in which SELECT ... ORDER BY created_at may return the rows,
\* DESC or ASC: each row once, no row after one it has to come before, the
\* rows of one second in any order.
OrderedBy(T, desc) ==
    {l \in [1..Cardinality(T) -> T] :
        /\ \A i, j \in 1..Cardinality(T) : i # j => l[i] # l[j]
        /\ \A i, j \in 1..Cardinality(T) :
              i < j => IF desc THEN l[i].created_at >= l[j].created_at
                       ELSE l[i].created_at <= l[j].created_at}

\* The variant with ORDER BY created_at ASC.
list_cached_schemas_ascending(table, fails) ==
    IF fails THEN {Err(<<"Failed to prepare query: ", "disk I/O error">>)}
    ELSE IF \E row \in table : ~from_str_ok(row.schema_content)
    THEN {Err(<<"Failed to collect results: ", "Invalid column type">>)}
    ELSE {Ok([i \in 1..Len(l) |-> [l[i] EXCEPT !.schema_content = from_str(l[i].schema_content)]]) :
             l \in OrderedBy(table, FALSE)}

\* What list_cached_schemas may return: an error, or Ok of the entries,
\* contents parsed, ordered by created_at DESC, the rows of one second in
\* any order.
list_cached_schemas(table, fails) ==
    IF fails THEN {Err(<<"Failed to prepare query: ", "disk I/O error">>)}
    ELSE IF \E row \in table : ~from_str_ok(row.schema_content)
    THEN {Err(<<"Failed to collect results: ", "Invalid column type">>)}
    ELSE {Ok([i \in 1..Len(l) |-> [l[i] EXCEPT !.schema_content = from_str(l[i].schema_content)]]) :
             l \in OrderedBy(table, TRUE)}

\* DELETE FROM chart_schemas: <<Ok(rows deleted), table afterwards>>
clear_all_schemas(table, fails) ==
    IF fails THEN <<Err(<<"Failed to clear schemas: ", "disk I/O error">>), table>>
    ELSE <<Ok(Cardinality(table)), {}>>

\* The variant that forgets the repository in the WHERE clause.
delete_chart_schema_any_repo(table, chart_name, chart_version, repo_name, fails) ==
    IF fails THEN <<Err(<<"Failed to delete schema: ", "disk I/O error">>), table>>
    ELSE <<Ok(<<>>),
           {row \in table : ~(row.chart_name = chart_name /\ row.chart_version = chart_version)}>>

\* DELETE ... WHERE the key matches: <<result, table afterwards>>
delete_chart_schema(table, chart_name, chart_version, repo_name, fails) ==
    IF fails THEN <<Err(<<"Failed to delete schema: ", "disk I/O error">>), table>>
    ELSE <<Ok(<<>>), {row \in table : ~SameKey(row, chart_name, chart_version, repo_name)}>>

(***************************************************************************)
(* get_schema_for_chart.mod.rs: check_cached_schema.  None, or             *)
(* Some(Ok(text)) for a cached schema that is not empty.                   *)
(***************************************************************************)
\* The variant without the emptiness test: any cached schema is returned.
check_cached_schema_any(table, chart_name, chart_version, repo_name, fails) ==
    LET got == get_chart_schema(table, chart_name, chart_version, repo_name, fails)
    IN  IF IsErr(got) \/ got[2] = None THEN None
        ELSE Some(Ok(to_string(got[2][2].schema_content)))

\* The variant that never trusts the cache.
check_cached_schema_never(table, chart_name, chart_version, repo_name, fails) == None

check_cached_schema(table, chart_name, chart_version, repo_name, fails) ==
    LET got == get_chart_schema(table, chart_name, chart_version, repo_name, fails)
    IN  IF IsErr(got) \/ got[2] = None THEN None
        ELSE LET schema_str == to_string(got[2][2].schema_content)
                 schema == from_str(schema_str)
             IN  IF HasMember(schema, "properties")
                 THEN IF /\ IsObject(Member(schema, "properties"))
                         /\ Member(schema, "properties")[2] = <<>>
                      THEN None
                      ELSE Some(Ok(schema_str))
                 ELSE IF ~IsObject(schema) \/ schema[2] = <<>>
                 THEN None
                 ELSE Some(Ok(schema_str))

(***************************************************************************)
(* The environment: what the frontend asks for and what helm answers.      *)
(***************************************************************************)
\* Bounds of the model.
MaxRepos == 3
MaxCalls == 2

\* The first MaxRepos of these are configured; "network-tools" is a
\* repository name only a caller of try_all_repos_for_chart hands over.
RepoNames == <<"A", "B", "C", "D", "network-tools">>
ConfiguredRepos == SubSeq(RepoNames, 1, MaxRepos)
RepoIndex(repo) == CHOOSE i \in 1..Len(RepoNames) : RepoNames[i] = repo

Charts == {"nginx"}
Versions == {"1.0.0"}
\* "X" is never a configured repository.
RequestedRepos == {"A", "X"}
Namespaces == {"prod"}
Releases == {"web"}
Option(S) == {None} \cup {Some(x) : x \in S}

ExecErrors == {"No such file or directory (os error 2)"}
StdErrs == {"not found", "connection refused"}
NotJson == <<TLit("apiVersion")>>

\* The values.schema.json a repository's chart declares.
DeclaredSchema(repo) ==
    JObj(<< <<"properties",
              JObj(<< <<"replicas", TypedDefault("integer", JInt(RepoIndex(repo)))>> >>)>>,
            <<"type", JStr("object")>> >>)

\* A values.schema.json that is JSON but no object.
ArrayFile == to_string(JArr(<<>>))

SchemaFiles(repo) == {to_string(DeclaredSchema(repo)), NotJson, ArrayFile}

\* What helm answers for one repository.  helm that cannot be run at all
\* fails the first command, the search.
NA == <<"na">>
\* `left` says that a failing pull had created the chart directory.
HelmAnswers(repo) ==
    {[search |-> <<"err", e>>, pull |-> NA, file |-> NA, left |-> FALSE] : e \in ExecErrors}
    \cup {[search |-> <<"exit", s>>, pull |-> NA, file |-> NA, left |-> FALSE] : s \in StdErrs}
    \cup {[search |-> <<"ok">>, pull |-> <<"exit", s>>, file |-> NA, left |-> l] :
              s \in StdErrs, l \in BOOLEAN}
    \cup {[search |-> <<"ok">>, pull |-> <<"ok">>, file |-> <<"missing">>, left |-> FALSE]}
    \cup {[search |-> <<"ok">>, pull |-> <<"ok">>, file |-> <<"text", t>>, left |-> FALSE] :
              t \in SchemaFiles(repo)}

\* The values of a deployed release, as `helm get values -o json` prints them.
ReleaseValues(release_name) ==
    JObj(<< <<"name", JStr(release_name)>>, <<"replicas", JInt(3)>> >>)

ValuesAnswers(release_name) ==
    {<<"err", e>> : e \in ExecErrors}
    \cup {<<"exit", "release: not found">>}
    \cup {<<"ok", t>> : t \in {to_string(ReleaseValues(release_name)), NotJson}}

\* `helm repo list`: a header line, then one line per configured repository.
Listing(S) ==
    LET repos == SelectSeq(ConfiguredRepos, LAMBDA r : r \in S)
    IN  << <<"NAME", "URL">> >> \o [i \in 1..Len(repos) |-> <<repos[i], "https://charts.example">>]

\* with the first n repositories configured
RepoListAnswersOf(n) ==
    {<<"err">>, <<"exit">>}
    \cup {<<"ok", Listing(S)>> : S \in SUBSET {ConfiguredRepos[i] : i \in 1..n}}

RepoListAnswers == RepoListAnswersOf(Len(ConfiguredRepos))

(***************************************************************************)
(* main.rs: get_schema_for_chart, the decisions between its awaits.        *)
(***************************************************************************)
\* main.rs:42-46; discovered is <<available_repos, requested_repo_exists>>
ReposToTry_all(repo_name, discovered) == discovered[1]

ReposToTry(repo_name, discovered) ==
    IF discovered[2] THEN <<repo_name>> ELSE discovered[1]

\* main.rs:54, the repository name the empty schema is cached under when
\* there is no repository to try
NoReposKey_requested(repo_name) == repo_name

NoReposKey(repo_name) == "no-repos-available"

\* main.rs:67, the repository name a found schema is cached under
SuccessKey_first(repos_to_try, repo_name) == repos_to_try[1]

SuccessKey(repos_to_try, repo_name) ==
    IF Len(repos_to_try) = 1 THEN repo_name ELSE repos_to_try[1]

\* search.rs:19-31, whether the loop of try_all_repos_for_chart ends after
\* the repository at position i of n answered with r
LoopEnds_exhaustive(r, i, n) == i = n

LoopEnds(r, i, n) ==
    \/ IsOk(r)
    \/ IsErr(r) /\ is_network_error(r[2])
    \/ i = n

\* What get_schema_for_chart does next: <<"store", repo_name, schema>> caches
\* the schema under that name and returns it, <<"values">> asks helm for the
\* values of the release, <<"return", result>> returns at once.
\* main.rs:60-114, after try_all_repos_for_chart returned res
AfterSearch_propagate(call, repos_to_try, res) ==
    IF IsOk(res) THEN <<"store", SuccessKey(repos_to_try, call.repo_name), res[2]>>
    ELSE <<"return", res>>

AfterSearch(call, repos_to_try, res) ==
    IF IsOk(res) THEN <<"store", SuccessKey(repos_to_try, call.repo_name), res[2]>>
    ELSE IF IsSome(call.release_name) /\ IsSome(call.namespace) THEN <<"values">>
    ELSE <<"store", call.repo_name, create_empty_schema>>

\* main.rs:77-103, after generate_schema_from_helm_values returned res
AfterValues_unsaved(call, res) ==
    IF IsOk(res) THEN <<"return", Ok(to_string(res[2]))>>
    ELSE <<"store", call.repo_name, create_empty_schema>>

\* The variant that asks helm for the values again when it failed.
AfterValues_retry(call, res) ==
    IF IsOk(res) THEN <<"store", call.repo_name, res[2]>>
    ELSE <<"values">>

AfterValues_empty(call, res) == <<"store", call.repo_name, create_empty_schema>>

AfterValues(call, res) ==
    IF IsOk(res) THEN <<"store", call.repo_name, res[2]>>
    ELSE <<"store", call.repo_name, create_empty_schema>>

(***************************************************************************)
(* State.  Each invocation of the command get_schema_for_chart is a        *)
(* process; the table is shared.  log is the history of the invocation:    *)
(* the commands it ran and the store operations it made, in order.         *)
(***************************************************************************)
VARIABLES
    table,          \* the rows of chart_schemas
    ncalls,         \* invocations started so far
    pc,             \* where each invocation is
    call,           \* its arguments
    repos_to_try,   \* main.rs:42
    idx,            \* search.rs:19, the position of current_repo
    last_error,     \* search.rs:17
    to_store,       \* the key and schema about to be cached
    result,         \* what the invocation returned
    log,            \* history
    db_guard,       \* who holds a MutexGuard of the connection (connection.rs:5)
    temp_charts,    \* the chart directories under "temp-charts" (chart_operations.rs:48)
    clock           \* CURRENT_TIMESTAMP, in whole seconds (connection.rs:28)

vars == <<table, ncalls, pc, call, repos_to_try, idx, last_error, to_store, result, log,
          db_guard, temp_charts, clock>>

Procs == DOMAIN pc
NoCall == [chart_name |-> "", chart_version |-> "", repo_name |-> "",
           namespace |-> None, release_name |-> None]
NoStore == <<"", JNull>>
NoResult == <<"none">>

InitFor(P) ==
    /\ table = {}
    /\ ncalls = 0
    /\ pc = [p \in P |-> "idle"]
    /\ call = [p \in P |-> NoCall]
    /\ repos_to_try = [p \in P |-> <<>>]
    /\ idx = [p \in P |-> 0]
    /\ last_error = [p \in P |-> <<>>]
    /\ to_store = [p \in P |-> NoStore]
    /\ result = [p \in P |-> NoResult]
    /\ log = [p \in P |-> <<>>]
    /\ db_guard = {}
    /\ temp_charts = {}
    /\ clock = 0

Init == InitFor({1})

\* The invocation moves on as `next` says (see AfterSearch).
Continue(p, next, events) ==
    /\ log' = [log EXCEPT ![p] = log[p] \o events]
    /\ repos_to_try' = [repos_to_try EXCEPT ![p] = <<>>]
    /\ idx' = [idx EXCEPT ![p] = 0]
    /\ last_error' = [last_error EXCEPT ![p] = <<>>]
    /\ CASE next[1] = "store" ->
              /\ pc' = [pc EXCEPT ![p] = "store"]
              /\ to_store' = [to_store EXCEPT ![p] = <<next[2], next[3]>>]
              /\ UNCHANGED result
         [] next[1] = "values" ->
              /\ pc' = [pc EXCEPT ![p] = "values"]
              /\ UNCHANGED <<to_store, result>>
         [] next[1] = "return" ->
              /\ pc' = [pc EXCEPT ![p] = "done"]
              /\ result' = [result EXCEPT ![p] = next[2]]
              /\ UNCHANGED to_store

\* The frontend invokes get_schema_for_chart, for one of these repositories,
\* namespaces and releases.
CallAmong(p, repos, namespaces, releases) ==
    /\ pc[p] \in {"idle", "done"}
    /\ ncalls < MaxCalls
    /\ \E c \in Charts, v \in Versions, r \in repos,
          ns \in Option(namespaces), rel \in Option(releases) :
          call' = [call EXCEPT ![p] = [chart_name |-> c, chart_version |-> v,
                                       repo_name |-> r, namespace |-> ns,
                                       release_name |-> rel]]
    /\ ncalls' = ncalls + 1
    /\ pc' = [pc EXCEPT ![p] = "check"]
    /\ result' = [result EXCEPT ![p] = NoResult]
    /\ log' = [log EXCEPT ![p] = <<>>]
    /\ UNCHANGED <<table, repos_to_try, idx, last_error, to_store, db_guard, temp_charts, clock>>

Call(p) == CallAmong(p, RequestedRepos, Namespaces, Releases)

\* main.rs:32-35
CacheCheckStep(p, fails) ==
    /\ pc[p] = "check"
    /\ LET c == call[p]
           got == get_chart_schema(table, c.chart_name, c.chart_version, c.repo_name, fails)
           cached == check_cached_schema(table, c.chart_name, c.chart_version, c.repo_name, fails)
       IN  /\ log' = [log EXCEPT ![p] = Append(log[p], <<"get", got>>)]
           /\ IF cached = None
              THEN /\ pc' = [pc EXCEPT ![p] = "discover"]
                   /\ UNCHANGED result
              ELSE /\ pc' = [pc EXCEPT ![p] = "done"]
                   /\ result' = [result EXCEPT ![p] = cached[2]]
    /\ UNCHANGED <<table, ncalls, call, repos_to_try, idx, last_error, to_store, temp_charts, clock>>

\* std::sync::Mutex::lock (schemas.rs:24-26, 47-49): the lock is taken when
\* no guard of it is alive.
LockFree_always(guards) == TRUE

LockFree(guards) == guards = {}

\* lock, statement and drop of the guard in one step
CacheCheck(p) == LockFree(db_guard) /\ CacheCheckStep(p, FALSE) /\ UNCHANGED db_guard

\* main.rs:39-57, `outputs` being what helm repo list may answer
DiscoverAmong(p, outputs) ==
    /\ pc[p] = "discover"
    /\ \E output \in outputs :
          LET discovered == get_available_repos(call[p].repo_name, output)
              candidates == ReposToTry(call[p].repo_name, discovered)
              ran == << <<"repo_list", discovered, output>>, <<"candidates", candidates>> >>
          IN  IF candidates = <<>>
              THEN Continue(p, <<"store", NoReposKey(call[p].repo_name), create_empty_schema>>,
                            ran)
              ELSE /\ repos_to_try' = [repos_to_try EXCEPT ![p] = candidates]
                   /\ idx' = [idx EXCEPT ![p] = 1]
                   /\ last_error' = [last_error EXCEPT ![p] = <<>>]
                   /\ pc' = [pc EXCEPT ![p] = "search"]
                   /\ log' = [log EXCEPT ![p] = log[p] \o ran]
                   /\ UNCHANGED <<to_store, result>>
    /\ UNCHANGED <<table, ncalls, call, db_guard, temp_charts, clock>>

Discover(p) == DiscoverAmong(p, RepoListAnswers)

\* search.rs:19-31, one turn of the loop of try_all_repos_for_chart, and
\* main.rs:60-114 when the loop ends; helm answers one of `answers`
TryRepoAmong(p, answers) ==
    /\ pc[p] = "search"
    /\ LET current_repo == repos_to_try[p][idx[p]]
           c == call[p]
       IN  \E helm \in HelmAnswers(current_repo) \cap answers :
              /\ PullPossible(temp_charts, c.chart_name, helm)
              /\ temp_charts' = temp_charts_after_try(temp_charts, c.chart_name, helm)
              /\ LET r == try_repo_for_chart(current_repo, c.chart_name, c.chart_version, helm)
                     ran == << <<"search", current_repo>> >>
                            \o (IF helm.search[1] = "ok"
                                THEN << <<"pull", current_repo, helm.pull[1], helm.file[1]>> >>
                                ELSE <<>>)
                            \o << <<"tried", current_repo, r>> >>
                     res == IF IsOk(r) THEN r ELSE Err(r[2])
                 IN  IF LoopEnds(r, idx[p], Len(repos_to_try[p]))
                     THEN Continue(p, AfterSearch(c, repos_to_try[p], res),
                                   ran \o << <<"search_all", res>> >>)
                     ELSE /\ idx' = [idx EXCEPT ![p] = idx[p] + 1]
                          /\ last_error' = [last_error EXCEPT ![p] = r[2]]
                          /\ log' = [log EXCEPT ![p] = log[p] \o ran]
                          /\ UNCHANGED <<pc, repos_to_try, to_store, result>>
    /\ UNCHANGED <<table, ncalls, call, db_guard, clock>>

TryRepo(p) == TryRepoAmong(p, HelmAnswers(repos_to_try[p][idx[p]]))

\* main.rs:75-103
Values(p) ==
    /\ pc[p] = "values"
    /\ LET c == call[p]
       IN  \E output \in ValuesAnswers(c.release_name[2]) :
              LET res == generate_schema_from_helm_values(c.release_name[2], c.namespace[2], output)
              IN  Continue(p, AfterValues(c, res), << <<"values", res>> >>)
    /\ UNCHANGED <<table, ncalls, call, db_guard, temp_charts, clock>>

\* store_chart_schema and the return that follows it (main.rs:63-71,
\* 81-90; get_schema_for_chart.mod.rs:54-76).  The invocations run within
\* one second: the clock moves in SpecList only, where created_at is read.
StoreStep(p, fails) ==
    /\ pc[p] = "store"
    /\ LET c == call[p]
           put == store_chart_schema(table, c.chart_name, c.chart_version, to_store[p][1],
                                     c.namespace, to_store[p][2], clock, fails)
       IN  /\ table' = put[2]
           /\ result' = [result EXCEPT ![p] =
                            IF IsOk(put[1]) THEN Ok(to_string(to_store[p][2])) ELSE put[1]]
           /\ log' = [log EXCEPT ![p] =
                         Append(log[p], <<"put", to_store[p][1], c.namespace, to_store[p][2],
                                          IsOk(put[1])>>)]
    /\ pc' = [pc EXCEPT ![p] = "done"]
    /\ to_store' = [to_store EXCEPT ![p] = NoStore]
    /\ UNCHANGED <<ncalls, call, repos_to_try, idx, last_error, temp_charts, clock>>

Store(p) == LockFree(db_guard) /\ StoreStep(p, FALSE) /\ UNCHANGED db_guard

\* SQLite fails the statement.
CacheCheckFails(p) == LockFree(db_guard) /\ CacheCheckStep(p, TRUE) /\ UNCHANGED db_guard

StoreFails(p) == LockFree(db_guard) /\ StoreStep(p, TRUE) /\ UNCHANGED db_guard

Next ==
    \/ \E p \in Procs : Call(p)
    \/ \E p \in Procs : CacheCheck(p)
    \/ \E p \in Procs : Discover(p)
    \/ \E p \in Procs : TryRepo(p)
    \/ \E p \in Procs : Values(p)
    \/ \E p \in Procs : Store(p)

Spec == Init /\ [][Next]_vars

NextFault ==
    \/ Next
    \/ \E p \in Procs : CacheCheckFails(p)
    \/ \E p \in Procs : StoreFails(p)

SpecFault == Init /\ [][NextFault]_vars

(***************************************************************************)
(* Concurrent commands.  Tauri runs each command invocation on its own     *)
(* task; the invocations share the connection behind one Mutex (run.rs:28, *)
(* connection.rs:5).  A store operation takes the lock, runs its statement *)
(* and drops the guard when it returns; here the three are steps of their  *)
(* own.  A management command deletes one entry or clears the table        *)
(* (lib.rs:156-178) or lists it (lib.rs:151-154).                          *)
(***************************************************************************)
\* Repositories configured while commands run concurrently.
MaxReposConc == 1

InitConc == InitFor({1, 2})

DiscoverConc(p) == DiscoverAmong(p, RepoListAnswersOf(MaxReposConc))

\* The invocation is at a store operation.
AtStoreOp(p) == pc[p] \in {"check", "store", "manage"}

\* db.lock() returns the guard.
LockDb(p) ==
    /\ AtStoreOp(p)
    /\ p \notin db_guard
    /\ LockFree(db_guard)
    /\ db_guard' = db_guard \cup {p}
    /\ UNCHANGED <<table, ncalls, pc, call, repos_to_try, idx, last_error, to_store, result, log,
                   temp_charts, clock>>

\* The statement runs and the guard is dropped at the return.
CacheCheckLocked(p) ==
    /\ p \in db_guard
    /\ CacheCheckStep(p, FALSE)
    /\ db_guard' = db_guard \ {p}

\* The variant whose guard outlives the call.
StoreLocked_keeps_guard(p) ==
    /\ p \in db_guard
    /\ StoreStep(p, FALSE)
    /\ UNCHANGED db_guard

StoreLocked(p) ==
    /\ p \in db_guard
    /\ StoreStep(p, FALSE)
    /\ db_guard' = db_guard \ {p}

\* The frontend invokes clear_schema_cache, delete_schema_cache_entry or
\* list_cached_schemas.  What a management command returns is kept with
\* the name of the command: <<"clear", Ok(rows)>>, <<"delete", Ok(<<>>)>>,
\* <<"list", Ok(entries)>>.
ManageCall(p) ==
    /\ pc[p] \in {"idle", "done"}
    /\ ncalls < MaxCalls
    /\ ncalls' = ncalls + 1
    /\ pc' = [pc EXCEPT ![p] = "manage"]
    /\ call' = [call EXCEPT ![p] = NoCall]
    /\ result' = [result EXCEPT ![p] = NoResult]
    /\ log' = [log EXCEPT ![p] = <<>>]
    /\ UNCHANGED <<table, repos_to_try, idx, last_error, to_store, db_guard, temp_charts, clock>>

ManageLocked(p) ==
    /\ p \in db_guard
    /\ pc[p] = "manage"
    /\ \/ LET clr == clear_all_schemas(table, FALSE)
          IN  /\ log' = [log EXCEPT ![p] = << <<"clear", clr[1]>> >>]
              /\ table' = clr[2]
              /\ result' = [result EXCEPT ![p] = <<"clear", clr[1]>>]
       \/ \E repo \in RequestedRepos :
              LET del == delete_chart_schema(table, "nginx", "1.0.0", repo, FALSE)
              IN  /\ log' = [log EXCEPT ![p] = << <<"delete", repo, IsOk(del[1])>> >>]
                  /\ table' = del[2]
                  /\ result' = [result EXCEPT ![p] = <<"delete", del[1]>>]
       \/ \E listed \in list_cached_schemas(table, FALSE) :
              /\ log' = [log EXCEPT ![p] = << <<"list", listed>> >>]
              /\ table' = table
              /\ result' = [result EXCEPT ![p] = <<"list", listed>>]
    /\ pc' = [pc EXCEPT ![p] = "done"]
    /\ db_guard' = db_guard \ {p}
    /\ UNCHANGED <<ncalls, call, repos_to_try, idx, last_error, to_store, temp_charts, clock>>

NextConc ==
    \/ \E p \in Procs : Call(p)
    \/ \E p \in Procs : ManageCall(p)
    \/ \E p \in Procs : LockDb(p)
    \/ \E p \in Procs : CacheCheckLocked(p)
    \/ \E p \in Procs : DiscoverConc(p)
    \/ \E p \in Procs : TryRepo(p)
    \/ \E p \in Procs : Values(p)
    \/ \E p \in Procs : StoreLocked(p)
    \/ \E p \in Procs : ManageLocked(p)

SpecConc == InitConc /\ [][NextConc]_vars

(***************************************************************************)
(* Concurrent commands with fairness: every helm command ends, every       *)
(* statement ends, and an invocation that keeps asking for the lock gets   *)
(* it.  The frontend is free to invoke or not.  helm answers with one      *)
(* failure of each kind or with the chart.                                 *)
(***************************************************************************)
ConcProcs == {1, 2}

LiveAnswers ==
    {[search |-> <<"exit", "not found">>, pull |-> NA, file |-> NA, left |-> FALSE],
     [search |-> <<"exit", "connection refused">>, pull |-> NA, file |-> NA, left |-> FALSE],
     [search |-> <<"ok">>, pull |-> <<"ok">>, file |-> <<"missing">>, left |-> FALSE]}

CallLive(p) == CallAmong(p, {"A"}, Namespaces, Releases)

TryRepoLive(p) == TryRepoAmong(p, LiveAnswers)

NextLive ==
    \/ \E p \in Procs : CallLive(p)
    \/ \E p \in Procs : ManageCall(p)
    \/ \E p \in Procs : LockDb(p)
    \/ \E p \in Procs : CacheCheckLocked(p)
    \/ \E p \in Procs : DiscoverConc(p)
    \/ \E p \in Procs : TryRepoLive(p)
    \/ \E p \in Procs : Values(p)
    \/ \E p \in Procs : StoreLocked(p)
    \/ \E p \in Procs : ManageLocked(p)

\* CacheCheckLocked(p) is enabled exactly when p holds the lock at its cache
\* check: the step always moves pc[p].
CacheCheckEnabled(p) == p \in db_guard /\ pc[p] = "check"

\* SF for the lock: a waiting invocation sees the lock free again and again
\* and is not passed over for ever.  WF for the rest: a statement or a helm
\* command that has started ends.  The condition on CacheCheckLocked is
\* WF_vars(CacheCheckLocked(p)) written out.
FairLive ==
    \A p \in ConcProcs :
        /\ SF_vars(LockDb(p))
        /\ (<>[]CacheCheckEnabled(p)) => ([]<><<CacheCheckLocked(p)>>_vars)
        /\ WF_vars(DiscoverConc(p))
        /\ WF_vars(TryRepoLive(p))
        /\ WF_vars(Values(p))
        /\ WF_vars(StoreLocked(p))
        /\ WF_vars(ManageLocked(p))

SpecLive == InitConc /\ [][NextLive]_vars /\ FairLive

(***************************************************************************)
(* search.rs: try_all_repos_for_chart as a function of its arguments and   *)
(* of what helm answers for each repository: <<result, n>>, n the number   *)
(* of repositories try_repo_for_chart was called for.                      *)
(***************************************************************************)
\* search.rs:26, the error kept when the loop goes on
KeptError_first(kept, e) == IF kept = <<>> THEN e ELSE kept

KeptError(kept, e) == e

\* The variant that goes on past a repository whose chart gave the empty
\* schema, as long as the list has another repository.
RECURSIVE try_all_repos_from_skip_empty(_, _, _, _, _, _)
try_all_repos_from_skip_empty(repos, helms, chart_name, chart_version, i, kept) ==
    IF i > Len(repos) THEN <<Err(kept), i - 1>>
    ELSE LET r == try_repo_for_chart(repos[i], chart_name, chart_version, helms[i])
         IN  IF IsOk(r) /\ (r[2] # create_empty_schema \/ i = Len(repos)) THEN <<r, i>>
             ELSE IF IsOk(r)
             THEN try_all_repos_from_skip_empty(repos, helms, chart_name, chart_version,
                                                i + 1, kept)
             ELSE IF is_network_error(r[2]) THEN <<Err(r[2]), i>>
             ELSE try_all_repos_from_skip_empty(repos, helms, chart_name, chart_version,
                                                i + 1, KeptError(kept, r[2]))

RECURSIVE try_all_repos_from(_, _, _, _, _, _)
try_all_repos_from(repos, helms, chart_name, chart_version, i, kept) ==
    IF i > Len(repos) THEN <<Err(kept), i - 1>>
    ELSE LET r == try_repo_for_chart(repos[i], chart_name, chart_version, helms[i])
         IN  IF IsOk(r) THEN <<r, i>>
             ELSE IF is_network_error(r[2]) THEN <<Err(r[2]), i>>
             ELSE try_all_repos_from(repos, helms, chart_name, chart_version, i + 1,
                                     KeptError(kept, r[2]))

try_all_repos_for_chart(repos, helms, chart_name, chart_version) ==
    try_all_repos_from(repos, helms, chart_name, chart_version, 1, <<>>)

\* The arguments a caller may hand over: any list of distinct repository
\* names, the empty one included, and chart names that hold the words the
\* classifier looks for.
SearchRepos == {"A", "B", "network-tools"}
SearchCharts == {"nginx", "connection-pool"}
RepoLists ==
    {<<>>} \cup {<<a>> : a \in SearchRepos}
    \cup {l \in {<<a, b>> : a \in SearchRepos, b \in SearchRepos} : l[1] # l[2]}
    \cup {l \in {<<a, b, c>> : a \in SearchRepos, b \in SearchRepos, c \in SearchRepos} :
             Cardinality({l[1], l[2], l[3]}) = 3}
HelmsFor(repos) ==
    {h \in [1..Len(repos) -> UNION {HelmAnswers(r) : r \in SearchRepos}] :
        \A i \in 1..Len(repos) : h[i] \in HelmAnswers(repos[i])}

InitSearch ==
    /\ table = {}
    /\ ncalls = 0
    /\ pc = [p \in {1} |-> "search_all"]
    /\ \E c \in SearchCharts, v \in Versions :
          call = [p \in {1} |-> [NoCall EXCEPT !.chart_name = c, !.chart_version = v]]
    /\ \E repos \in RepoLists : repos_to_try = [p \in {1} |-> repos]
    /\ idx = [p \in {1} |-> 0]
    /\ last_error = [p \in {1} |-> <<>>]
    /\ to_store = [p \in {1} |-> NoStore]
    /\ result = [p \in {1} |-> NoResult]
    /\ log = [p \in {1} |-> <<>>]
    /\ db_guard = {}
    /\ temp_charts = {}
    /\ clock = 0

\* One call of try_all_repos_for_chart.
SearchAll(p) ==
    /\ pc[p] = "search_all"
    /\ \E helms \in HelmsFor(repos_to_try[p]) :
          LET res == try_all_repos_for_chart(repos_to_try[p], helms,
                                             call[p].chart_name, call[p].chart_version)
          IN  /\ result' = [result EXCEPT ![p] = res[1]]
              /\ log' = [log EXCEPT ![p] = << <<"helms", helms>>, <<"searched", res[2]>> >>]
    /\ pc' = [pc EXCEPT ![p] = "done"]
    /\ UNCHANGED <<table, ncalls, call, repos_to_try, idx, last_error, to_store, db_guard,
                   temp_charts, clock>>

NextSearch == \E p \in Procs : SearchAll(p)

SpecSearch == InitSearch /\ [][NextSearch]_vars

(***************************************************************************)
(* db/schemas.rs: the store operations on their own, on a database file    *)
(* that may hold rows from earlier runs, a row whose content is not JSON    *)
(* included.  log is the sequence of operations made, with their results.  *)
(***************************************************************************)
MaxOps == 3

StoreRepos == {"A", "B"}
\* A document with every kind of JSON value in it.
MixedDocument ==
    JObj(<< <<"enabled", JBool(TRUE)>>,
            <<"items", JArr(<<JFloat("1.5"), JNull, JStr("web")>>)>>,
            <<"properties", JObj(<< <<"replicas", JInt(3)>> >>)>> >>)
StoreDocs == {create_empty_schema, DeclaredSchema("A"), MixedDocument}
\* What a key may hold when the database is opened.
StoredRows(repo) ==
    {[chart_name |-> "nginx", chart_version |-> "1.0.0", repo_name |-> repo,
      namespace |-> None, schema_content |-> t, created_at |-> 0] : t \in {to_string(create_empty_schema), NotJson}}
StoreTables ==
    {T \in SUBSET UNION {StoredRows(repo) : repo \in StoreRepos} :
        \A r1 \in T, r2 \in T : r1.repo_name = r2.repo_name => r1 = r2}

\* The database is opened at second `second`.
InitStoreAt(second) ==
    /\ table \in StoreTables
    /\ ncalls = 0
    /\ pc = [p \in {1} |-> "db"]
    /\ call = [p \in {1} |-> NoCall]
    /\ repos_to_try = [p \in {1} |-> <<>>]
    /\ idx = [p \in {1} |-> 0]
    /\ last_error = [p \in {1} |-> <<>>]
    /\ to_store = [p \in {1} |-> NoStore]
    /\ result = [p \in {1} |-> NoResult]
    /\ log = [p \in {1} |-> << <<"open", table>> >>]
    /\ db_guard = {}
    /\ temp_charts = {}
    /\ clock = second

InitStore == InitStoreAt(0)

\* One store operation, its effect on the table and its entry in the log.
DbOp(p, table_after, event) ==
    /\ pc[p] = "db"
    /\ Len(log[p]) <= MaxOps
    /\ table' = table_after
    /\ log' = [log EXCEPT ![p] = Append(log[p], event)]
    /\ UNCHANGED <<ncalls, pc, call, repos_to_try, idx, last_error, to_store, result, db_guard,
                   temp_charts>>

DbPut(p) ==
    \E repo \in StoreRepos, ns \in Option(Namespaces), doc \in StoreDocs, fails \in BOOLEAN :
        LET put == store_chart_schema(table, "nginx", "1.0.0", repo, ns, doc, clock, fails)
        IN  /\ DbOp(p, put[2], <<"put", repo, ns, doc, IsOk(put[1]), clock>>)
            /\ UNCHANGED clock

DbGet(p) ==
    \E repo \in StoreRepos, fails \in BOOLEAN :
        /\ DbOp(p, table, <<"db_get", repo, get_chart_schema(table, "nginx", "1.0.0", repo, fails), fails>>)
        /\ UNCHANGED clock

DbDelete(p) ==
    \E repo \in StoreRepos, fails \in BOOLEAN :
        LET del == delete_chart_schema(table, "nginx", "1.0.0", repo, fails)
        IN  DbOp(p, del[2], <<"delete", repo, IsOk(del[1])>>) /\ UNCHANGED clock

DbClear(p) ==
    \E fails \in BOOLEAN :
        LET clr == clear_all_schemas(table, fails)
        IN  DbOp(p, clr[2], <<"clear", clr[1]>>) /\ UNCHANGED clock

NextStore ==
    \/ \E p \in Procs : DbPut(p)
    \/ \E p \in Procs : DbGet(p)
    \/ \E p \in Procs : DbDelete(p)
    \/ \E p \in Procs : DbClear(p)

SpecStore == InitStore /\ [][NextStore]_vars

(***************************************************************************)
(* The store with time: seconds go by between the writes, and the entries  *)
(* are listed (schemas.rs:87-126).                                         *)
(***************************************************************************)
\* The seconds that may go by while the database is open.
MaxClock == 2

ListDocs == {create_empty_schema, DeclaredSchema("A")}

\* The write happens in the second of the write before it, or in a later one.
PutAt(p) ==
    \E repo \in StoreRepos, doc \in ListDocs :
        \E now \in {t \in {clock, clock + 1} : t <= MaxClock} :
            LET put == store_chart_schema(table, "nginx", "1.0.0", repo, None, doc, now, FALSE)
            IN  /\ DbOp(p, put[2], <<"put", repo, None, doc, IsOk(put[1]), now>>)
                /\ clock' = now

DbList(p) ==
    \E fails \in BOOLEAN :
        \E listed \in list_cached_schemas(table, fails) :
            DbOp(p, table, <<"list", listed, fails>>) /\ UNCHANGED clock

NextList ==
    \/ \E p \in Procs : PutAt(p)
    \/ \E p \in Procs : DbList(p)
    \/ \E p \in Procs : DbDelete(p)

\* The rows the database is opened with are from before.
InitList == InitStoreAt(1)

SpecList == InitList /\ [][NextList]_vars

(***************************************************************************)
(* chart_operations.rs and search.rs on their own: calls of                *)
(* pull_chart_and_extract_schema and of try_repo_for_chart, one after the  *)
(* other, in a working directory that may hold what an earlier run left.   *)
(* Here helm pull may also fail to execute, and the answer says what the   *)
(* pull would do even when the search fails.                               *)
(***************************************************************************)
MaxFetches == 2

FetchCharts == {"nginx", "redis"}
PullAnswers(repo) ==
    {[pull |-> <<"err", e>>, file |-> NA, left |-> FALSE] : e \in ExecErrors}
    \cup {[pull |-> <<"exit", s>>, file |-> NA, left |-> l] : s \in StdErrs, l \in BOOLEAN}
    \cup {[pull |-> <<"ok">>, file |-> <<"missing">>, left |-> FALSE]}
    \cup {[pull |-> <<"ok">>, file |-> <<"text", t>>, left |-> FALSE] : t \in SchemaFiles(repo)}
SearchAnswers ==
    {<<"err", e>> : e \in ExecErrors} \cup {<<"exit", s>> : s \in StdErrs} \cup {<<"ok">>}
ProbeAnswers(repo) ==
    {[search |-> s, pull |-> a.pull, file |-> a.file, left |-> a.left] :
        s \in SearchAnswers, a \in PullAnswers(repo)}
FetchAnswers(repo) == {helm \in ProbeAnswers(repo) : helm.search = <<"ok">>}
\* What "temp-charts" may hold when the application starts.
LeftDirs == {{}, {<<"nginx", <<"missing">>>>}, {<<"redis", <<"text", NotJson>>>>}}

InitFetch ==
    /\ table = {}
    /\ ncalls = 0
    /\ pc = [p \in {1} |-> "fetch"]
    /\ call = [p \in {1} |-> NoCall]
    /\ repos_to_try = [p \in {1} |-> <<>>]
    /\ idx = [p \in {1} |-> 0]
    /\ last_error = [p \in {1} |-> <<>>]
    /\ to_store = [p \in {1} |-> NoStore]
    /\ result = [p \in {1} |-> NoResult]
    /\ log = [p \in {1} |-> <<>>]
    /\ db_guard = {}
    /\ temp_charts \in LeftDirs
    /\ clock = 0

\* One call, what it returns and what it leaves of the directory.
FetchOp(p, tag, chart_name, helm, r, dir_after) ==
    /\ pc[p] = "fetch"
    /\ Len(log[p]) < MaxFetches
    /\ PullPossible(temp_charts, chart_name, helm)
    /\ result' = [result EXCEPT ![p] = r]
    /\ temp_charts' = dir_after
    /\ log' = [log EXCEPT ![p] = Append(log[p], <<tag, chart_name, helm, temp_charts, dir_after, r>>)]
    /\ UNCHANGED <<table, ncalls, pc, call, repos_to_try, idx, last_error, to_store, db_guard,
                   clock>>

Fetch(p) ==
    \E chart_name \in FetchCharts, helm \in FetchAnswers("A") :
        FetchOp(p, "fetch", chart_name, helm,
                pull_chart_and_extract_schema("A", chart_name, "1.0.0", helm),
                temp_charts_after_pull(temp_charts, chart_name, helm))

SearchSource(p) ==
    \E chart_name \in FetchCharts, helm \in ProbeAnswers("A") :
        FetchOp(p, "probe", chart_name, helm,
                try_repo_for_chart("A", chart_name, "1.0.0", helm),
                temp_charts_after_try(temp_charts, chart_name, helm))

NextFetch ==
    \/ \E p \in Procs : Fetch(p)
    \/ \E p \in Procs : SearchSource(p)

SpecFetch == InitFetch /\ [][NextFetch]_vars

(***************************************************************************)
(* helm_values.rs on its own: generate_schema_from_helm_values for the     *)
(* values a release may have.                                              *)
(***************************************************************************)
\* An integer above i64::MAX: serde_json keeps it as a u64, as_i64 is None.
BigInteger == JFloat("18446744073709551615")
SynthScalars == {JStr("x"), JInt(3), JInt(80), JFloat("1.5"), BigInteger, JBool(TRUE), JNull}
InnerObject == JObj(<< <<"enabled", JBool(FALSE)>>, <<"ports", JArr(<<>>)>> >>)
SynthObjects ==
    {JObj(<<>>), InnerObject}
    \cup {JObj(<< <<"name", v>> >>) : v \in SynthScalars}
    \cup {JObj(<< <<"name", JStr("x")>>, <<"replicas", JObj(<< <<"enabled", InnerObject>> >>)>> >>)}
SynthArrays ==
    {JArr(<<>>), JArr(<<JInt(80), JInt(443)>>), JArr(<<JStr("x")>>), JArr(<<JNull, JInt(3)>>),
     JArr(<<InnerObject>>)}
SynthMembers == SynthScalars \cup SynthObjects \cup SynthArrays
\* What `helm get values -o json` may print: an object, or null for a
\* release without values of its own.
SynthValues ==
    {JNull}
    \cup {JObj(<< <<"ports", v>> >>) : v \in SynthMembers}
    \cup {JObj(<< <<"enabled", v>>, <<"replicas", w>> >>) : v \in SynthScalars, w \in SynthMembers}
SynthAnswers ==
    {<<"err", e>> : e \in ExecErrors}
    \cup {<<"exit", "release: not found">>}
    \cup {<<"ok", NotJson>>}
    \cup {<<"ok", to_string(v)>> : v \in SynthValues}

InitSynth ==
    /\ table = {}
    /\ ncalls = 0
    /\ pc = [p \in {1} |-> "synth"]
    /\ call = [p \in {1} |-> [NoCall EXCEPT !.namespace = Some("prod"),
                                              !.release_name = Some("web")]]
    /\ repos_to_try = [p \in {1} |-> <<>>]
    /\ idx = [p \in {1} |-> 0]
    /\ last_error = [p \in {1} |-> <<>>]
    /\ to_store = [p \in {1} |-> NoStore]
    /\ result = [p \in {1} |-> NoResult]
    /\ log = [p \in {1} |-> <<>>]
    /\ db_guard = {}
    /\ temp_charts = {}
    /\ clock = 0

\* One call of generate_schema_from_helm_values.
Synthesize(p) ==
    /\ pc[p] = "synth"
    /\ \E output \in SynthAnswers :
          LET res == generate_schema_from_helm_values(call[p].release_name[2],
                                                      call[p].namespace[2], output)
          IN  /\ result' = [result EXCEPT ![p] = res]
              /\ log' = [log EXCEPT ![p] = << <<"synth", output>> >>]
    /\ pc' = [pc EXCEPT ![p] = "done"]
    /\ UNCHANGED <<table, ncalls, call, repos_to_try, idx, last_error, to_store, db_guard,
                   temp_charts, clock>>

NextSynth == \E p \in Procs : Synthesize(p)

SpecSynth == InitSynth /\ [][NextSynth]_vars

(***************************************************************************)
(* Reading the history of an invocation.                                   *)
(***************************************************************************)
Events(p, tag) == SelectSeq(log[p], LAMBDA e : e[1] = tag)
Did(p, tag) == Events(p, tag) # <<>>
Returned(p) == pc[p] = "done"

\* The cache check read a row: the row, its content parsed.
GotRow(p) ==
    /\ log[p] # <<>>
    /\ log[p][1][1] = "get"
    /\ IsOk(log[p][1][2])
    /\ IsSome(log[p][1][2][2])
RowGot(p) == log[p][1][2][2][2]

EmptyProperties(schema) ==
    /\ HasMember(schema, "properties")
    /\ Member(schema, "properties") = JObj(<<>>)
NonEmptyProperties(schema) ==
    /\ HasMember(schema, "properties")
    /\ IsObject(Member(schema, "properties"))
    /\ Member(schema, "properties")[2] # <<>>

EmptyText == to_string(create_empty_schema)
BothSupplied(p) == IsSome(call[p].release_name) /\ IsSome(call[p].namespace)

\* C1: an invocation whose cache check read a row with an empty
\* `properties` object never returns from the cache check: it goes on to the
\* discovery of repositories, which is the next command it runs.
C1_EmptyCachedSchemaRetried ==
    \A p \in Procs :
        (GotRow(p) /\ EmptyProperties(RowGot(p).schema_content)) =>
            \/ pc[p] = "discover" /\ Len(log[p]) = 1
            \/ Len(log[p]) >= 2 /\ log[p][2][1] = "repo_list"

C1_Witness ==
    \E p \in Procs :
        /\ GotRow(p)
        /\ EmptyProperties(RowGot(p).schema_content)
        /\ Did(p, "repo_list")
        /\ Returned(p)

\* C2: an invocation whose cache check read a row with a non-empty
\* `properties` object has returned that row's document, and has run no
\* command and made no store write.
C2_CacheHitIsTerminal ==
    \A p \in Procs :
        (GotRow(p) /\ NonEmptyProperties(RowGot(p).schema_content)) =>
            /\ Returned(p)
            /\ Len(log[p]) = 1
            /\ IsOk(result[p])
            /\ from_str_ok(result[p][2])
            /\ from_str(result[p][2]) = RowGot(p).schema_content
            /\ \E row \in table :
                  /\ SameKey(row, call[p].chart_name, call[p].chart_version, call[p].repo_name)
                  /\ row.schema_content = result[p][2]

C2_Witness ==
    \E p \in Procs :
        /\ GotRow(p)
        /\ NonEmptyProperties(RowGot(p).schema_content)
        /\ Returned(p)
        /\ IsOk(result[p])

\* The text an error message is classified by (spec: timeout, network and
\* connection substrings).
NetworkClassified(msg) ==
    \E needle \in {"timeout", "network", "connection"} : MsgContains(msg, needle)

\* try_all_repos_for_chart returned, and what it returned.
SearchDone(p) == Did(p, "search_all")
SearchResult(p) == Events(p, "search_all")[1][2]
SearchFailed(p) == SearchDone(p) /\ IsErr(SearchResult(p))
Puts(p) == Events(p, "put")
\* The row the invocation wrote is in the table.
Persisted(p, repo_name, schema) ==
    \E row \in table :
        /\ SameKey(row, call[p].chart_name, call[p].chart_version, repo_name)
        /\ row.namespace = call[p].namespace
        /\ row.schema_content = to_string(schema)
\* The invocation made one store write, of `schema` under `repo_name` with
\* the namespace of the request.
OnePut(p, repo_name, schema) ==
    /\ Len(Puts(p)) = 1
    /\ Puts(p)[1][2] = repo_name
    /\ Puts(p)[1][3] = call[p].namespace
    /\ Puts(p)[1][4] = schema
PutOk(p) == Puts(p)[1][5]
StoreError(r) == IsErr(r) /\ r[2][1] = "Failed to store schema: "

\* C3: when the search fails with a network-classified error, the invocation
\* returns that error: no values are read, nothing is written, and the
\* result is not a schema.
C3_NetworkErrorSurfaced ==
    \A p \in Procs :
        (SearchFailed(p) /\ NetworkClassified(SearchResult(p)[2])) =>
            /\ Returned(p)
            /\ result[p] = SearchResult(p)
            /\ ~Did(p, "values")
            /\ ~Did(p, "put")

\* C4, as claimed: when the search failed and the values gave no schema (or
\* were not read), the invocation has written the empty schema under the
\* requested repository with the namespace of the request, and returned it;
\* it never returns an error.
NoSynthesis(p) ==
    /\ SearchFailed(p)
    /\ pc[p] # "values"
    /\ Did(p, "values") => IsErr(Events(p, "values")[1][2])

Candidates(p) == Events(p, "candidates")[1][2]
NoSources(p) == Did(p, "candidates") /\ Candidates(p) = <<>>
RanHelmForChart(p) ==
    Did(p, "search") \/ Did(p, "pull") \/ Did(p, "search_all") \/ Did(p, "values")

SearchFound(p) == SearchDone(p) /\ IsOk(SearchResult(p))

C6_FoundStoredUnderFirstCandidate ==
    \A p \in Procs :
        (Returned(p) /\ SearchFound(p)) =>
            /\ OnePut(p, Candidates(p)[1], SearchResult(p)[2])
            /\ PutOk(p) => result[p] = Ok(to_string(SearchResult(p)[2]))

\* C6, amended: a schema the search found is written under the requested
\* repository name when the candidate list has exactly one element (also
\* when that element is another repository), under the first candidate when
\* it has more, and returned; a failed store write returns the store's error.
C6_FoundStoredUnderRequestedOrFirst ==
    \A p \in Procs :
        (Returned(p) /\ SearchFound(p)) =>
            LET key == IF Len(Candidates(p)) = 1 THEN call[p].repo_name
                       ELSE Candidates(p)[1]
            IN  /\ OnePut(p, key, SearchResult(p)[2])
                /\ ~Did(p, "values")
                /\ IF PutOk(p)
                   THEN /\ Persisted(p, key, SearchResult(p)[2])
                        /\ result[p] = Ok(to_string(SearchResult(p)[2]))
                   ELSE StoreError(result[p])

\* The requested repository is not configured and one other repository is.
C6_Witness ==
    \E p \in Procs :
        /\ Returned(p)
        /\ SearchFound(p)
        /\ Len(Candidates(p)) = 1
        /\ Candidates(p)[1] # call[p].repo_name
        /\ PutOk(p)
        /\ Persisted(p, call[p].repo_name, SearchResult(p)[2])

\* The position of the first event with a tag in the history.
FirstAt(p, tag) == CHOOSE i \in 1..Len(log[p]) :
                      /\ log[p][i][1] = tag
                      /\ \A j \in 1..(i - 1) : log[p][j][1] # tag
ValuesResult(p) == Events(p, "values")[1][2]

PulledWithoutSchemaFile(p) ==
    \E i \in 1..Len(log[p]) :
        /\ log[p][i][1] = "pull"
        /\ log[p][i][3] = "ok"
        /\ log[p][i][4] = "missing"

C8_MissingSchemaFileFallsBackToValues ==
    \A p \in Procs :
        (Returned(p) /\ PulledWithoutSchemaFile(p) /\ BothSupplied(p)) =>
            Did(p, "values")

\* The results of try_repo_for_chart, in the order of the calls.
Tried(p) == Events(p, "tried")

\* C9: when try_repo_for_chart fails with a network-classified error,
\* try_all_repos_for_chart returns exactly that error and no repository after
\* that one is searched.
C9_NetworkErrorEndsSearch ==
    \A p \in Procs :
        \A i \in 1..Len(log[p]) :
            (/\ log[p][i][1] = "tried"
             /\ IsErr(log[p][i][3])
             /\ NetworkClassified(log[p][i][3][2])) =>
                /\ Len(log[p]) > i
                /\ log[p][i + 1] = <<"search_all", log[p][i][3]>>
                /\ \A j \in (i + 1)..Len(log[p]) : log[p][j][1] \notin {"search", "pull", "tried"}

\* The first of three candidates failed with a network-classified error.
C9_Witness ==
    \E p \in Procs :
        /\ Did(p, "candidates")
        /\ Len(Candidates(p)) = 3
        /\ Len(Tried(p)) = 1
        /\ IsErr(Tried(p)[1][3])
        /\ NetworkClassified(Tried(p)[1][3][2])
        /\ SearchDone(p)

NotFound(r) == IsErr(r) /\ r[2][1] = "Chart " /\ ~NetworkClassified(r[2])

\* C10: for three candidates (or more), when the first fails with not-found
\* and the second succeeds, try_all_repos_for_chart returns the schema of the
\* second and the third is never searched.
C10_FirstSuccessEndsSearch ==
    \A p \in Procs :
        (/\ Did(p, "candidates")
         /\ Len(Candidates(p)) >= 3
         /\ Len(Tried(p)) >= 2
         /\ NotFound(Tried(p)[1][3])
         /\ IsOk(Tried(p)[2][3])) =>
            /\ Tried(p)[1][2] = Candidates(p)[1]
            /\ Tried(p)[2][2] = Candidates(p)[2]
            /\ Len(Tried(p)) = 2
            /\ Len(Events(p, "search")) = 2
            /\ SearchDone(p)
            /\ SearchResult(p) = Tried(p)[2][3]

\* The second of three candidates declares a schema of its own.
C10_Witness ==
    \E p \in Procs :
        /\ Did(p, "candidates")
        /\ Len(Candidates(p)) = 3
        /\ Len(Tried(p)) = 2
        /\ NotFound(Tried(p)[1][3])
        /\ SearchDone(p)
        /\ SearchResult(p) = Ok(DeclaredSchema(Candidates(p)[2]))

\* Reading the history of one call of try_all_repos_for_chart.
Helms(p) == log[p][1][2]
Searched(p) == log[p][2][2]
Tries(p) ==
    [i \in 1..Len(repos_to_try[p]) |->
        try_repo_for_chart(repos_to_try[p][i], call[p].chart_name,
                           call[p].chart_version, Helms(p)[i])]
\* helm search exited non-zero saying the chart is not there.
SearchNegative(helm) == helm.search = <<"exit", "not found">>

\* C11: when the search of a repository that was tried says the chart is
\* not there and the list has a repository after it, that next repository
\* is tried too, whatever the names of repository and chart are.
C11_NotFoundContinues ==
    \A p \in Procs :
        (pc[p] = "done" /\ Did(p, "searched")) =>
            \A i \in 1..Searched(p) :
                (SearchNegative(Helms(p)[i]) /\ i < Len(repos_to_try[p])) =>
                    Searched(p) > i

\* C12: a call of try_all_repos_for_chart in which every repository failed
\* with an error that is not network-classified tried them all and returns
\* the error of the last repository of the list; with the empty list it
\* returns the error with the empty message.
Exhausted(p) ==
    \A i \in 1..Len(repos_to_try[p]) :
        IsErr(Tries(p)[i]) /\ ~is_network_error(Tries(p)[i][2])

C12_ExhaustedReturnsLastError ==
    \A p \in Procs :
        (pc[p] = "done" /\ Did(p, "searched") /\ Exhausted(p)) =>
            /\ Searched(p) = Len(repos_to_try[p])
            /\ result[p] = IF repos_to_try[p] = <<>> THEN Err(<<>>)
                           ELSE Err(Tries(p)[Len(repos_to_try[p])][2])

\* Two repositories failed in different ways, neither network-classified.
C12_Witness ==
    \E p \in Procs :
        /\ pc[p] = "done"
        /\ Did(p, "searched")
        /\ Exhausted(p)
        /\ Len(repos_to_try[p]) = 2
        /\ Tries(p)[1][2][1] # Tries(p)[2][2][1]
        /\ result[p] = Err(Tries(p)[2][2])

\* What get_available_repos returned: <<available_repos, requested_repo_exists>>.
Discovered(p) == Events(p, "repo_list")[1][2]
Searches(p) == Events(p, "search")

\* C13: when discovery says the requested repository exists, the candidate
\* list is that repository alone; otherwise it is the discovered list, in
\* its order.  The repositories searched are the candidates, in order, and
\* no other.
C13_CandidatesRequestedOrDiscovered ==
    \A p \in Procs :
        Did(p, "candidates") =>
            /\ Discovered(p)[2] => Candidates(p) = <<call[p].repo_name>>
            /\ ~Discovered(p)[2] => Candidates(p) = Discovered(p)[1]
            /\ Len(Searches(p)) <= Len(Candidates(p))
            /\ \A i \in 1..Len(Searches(p)) : Searches(p)[i][2] = Candidates(p)[i]

\* The requested repository exists among three, and the search is over.
C13_Witness ==
    \E p \in Procs :
        /\ Did(p, "candidates")
        /\ Discovered(p)[2]
        /\ Len(Discovered(p)[1]) = 3
        /\ SearchDone(p)
        /\ Len(Searches(p)) = 1

\* The cache-check get of the invocation failed.
GetFailed(p) ==
    /\ log[p] # <<>>
    /\ log[p][1][1] = "get"
    /\ IsErr(log[p][1][2])

\* C14: an invocation whose cache-check get failed ends there, returning the
\* error of the store, and an invocation whose store write failed returns
\* the error of the store.
C14_StoreErrorsSurfaced ==
    \A p \in Procs :
        /\ GetFailed(p) =>
              /\ pc[p] = "done"
              /\ Len(log[p]) = 1
              /\ result[p] = log[p][1][2]
        /\ (Returned(p) /\ Did(p, "put") /\ ~PutOk(p)) => StoreError(result[p])

(***************************************************************************)
(* Reading the log of store operations.                                    *)
(***************************************************************************)
RowsOf(T, repo) == {row \in T : SameKey(row, "nginx", "1.0.0", repo)}
\* The operation changed what the store holds for the key of `repo`.
Wrote(e, repo) ==
    \/ e[1] = "put" /\ e[2] = repo /\ e[5]
    \/ e[1] = "delete" /\ e[2] = repo /\ e[3]
    \/ e[1] = "clear" /\ IsOk(e[2])
\* The position of the last such operation before position j, 0 for none.
LastWrite(p, repo, j) ==
    LET S == {i \in 2..(j - 1) : Wrote(log[p][i], repo)}
    IN  IF S = {} THEN 0 ELSE CHOOSE i \in S : \A k \in S : k <= i

\* C15: a get changes no row; when SQLite runs the statement, it returns
\* None for a key no row has, an error for a key whose row holds text that
\* is not JSON, and the row otherwise.
C15_GetNoneOrStoreError ==
    [][\A p \in Procs :
          (/\ pc[p] = "db"
           /\ Len(log'[p]) = Len(log[p]) + 1
           /\ log'[p][Len(log'[p])][1] = "db_get") =>
              LET e == log'[p][Len(log'[p])]
                  rows == RowsOf(table, e[2])
              IN  /\ table' = table
                  /\ (~e[4] /\ rows = {}) => e[3] = Ok(None)
                  /\ (~e[4] /\ \E row \in rows : row.schema_content = NotJson) =>
                        /\ IsErr(e[3])
                        /\ e[3][2][1] = "Failed to collect results: "
                  /\ (~e[4] /\ rows # {} /\ \A row \in rows : row.schema_content # NotJson) =>
                        /\ IsOk(e[3])
                        /\ IsSome(e[3][2])]_vars

\* A get met a row whose content is not JSON, and a get met no row.
C15_Witness ==
    \E p \in Procs :
        /\ pc[p] = "db"
        /\ \E i \in 2..Len(log[p]) :
              /\ log[p][i][1] = "db_get"
              /\ ~log[p][i][4]
              /\ IsErr(log[p][i][3])
        /\ \E i \in 2..Len(log[p]) :
              /\ log[p][i][1] = "db_get"
              /\ log[p][i][3] = Ok(None)

\* C16: the store holds at most one row per key; after a put the row of its
\* key holds the document and namespace of the most recent put of that key,
\* and a key no operation wrote holds what it held when the database was
\* opened.
C16_OneRowPerKeyLatestPut ==
    \A p \in Procs :
        pc[p] = "db" =>
            \A repo \in StoreRepos :
                LET i == LastWrite(p, repo, Len(log[p]) + 1)
                    rows == RowsOf(table, repo)
                IN  /\ Cardinality(rows) <= 1
                    /\ i = 0 => rows = RowsOf(log[p][1][2], repo)
                    /\ (i > 0 /\ log[p][i][1] = "put") =>
                          /\ Cardinality(rows) = 1
                          /\ \A row \in rows :
                                /\ from_str_ok(row.schema_content)
                                /\ from_str(row.schema_content) = log[p][i][4]
                                /\ row.namespace = log[p][i][3]
                    /\ (i > 0 /\ log[p][i][1] # "put") => rows = {}

\* The same key was put twice, with different documents.
C16_Witness ==
    \E p \in Procs :
        /\ pc[p] = "db"
        /\ Len(log[p]) = 3
        /\ log[p][2][1] = "put" /\ log[p][2][5]
        /\ log[p][3][1] = "put" /\ log[p][3][5]
        /\ log[p][2][2] = log[p][3][2]
        /\ log[p][2][4] # log[p][3][4]
        /\ RowsOf(log[p][1][2], log[p][2][2]) # {}
        /\ Cardinality(RowsOf(table, log[p][3][2])) = 1

\* C17: a get that SQLite runs, for a key whose last write was a put,
\* returns an entry with the document and the namespace of that put.
C17_GetReturnsWhatWasPut ==
    \A p \in Procs :
        pc[p] = "db" =>
            \A j \in 2..Len(log[p]) :
                (log[p][j][1] = "db_get" /\ ~log[p][j][4]) =>
                    LET i == LastWrite(p, log[p][j][2], j)
                    IN  (i > 0 /\ log[p][i][1] = "put") =>
                            /\ IsOk(log[p][j][3])
                            /\ IsSome(log[p][j][3][2])
                            /\ log[p][j][3][2][2].schema_content = log[p][i][4]
                            /\ log[p][j][3][2][2].namespace = log[p][i][3]
                            /\ log[p][j][3][2][2].repo_name = log[p][j][2]

\* A document of every kind of value was put with a namespace over a row that did
\* not parse, and then read.
C17_Witness ==
    \E p \in Procs :
        /\ pc[p] = "db"
        /\ Len(log[p]) = 3
        /\ \E row \in RowsOf(log[p][1][2], "A") : row.schema_content = NotJson
        /\ log[p][2] = <<"put", "A", Some("prod"), MixedDocument, TRUE, 0>>
        /\ log[p][3][1] = "db_get"
        /\ log[p][3][2] = "A"
        /\ IsOk(log[p][3][3])

\* C18: the schema_content of every row of the table is the text of a JSON
\* object.
C18_StoredDocumentIsObject ==
    \A row \in table :
        /\ from_str_ok(row.schema_content)
        /\ IsObject(from_str(row.schema_content))

\* The invocation went past the cache check.
Missed(p) == Did(p, "repo_list")

\* C19: an invocation that went past the cache check and returned Ok made
\* exactly one store write, its last step, which succeeded, and returns the
\* text of the document it wrote, which the table holds; an invocation that
\* returned from the cache check made no store write.
C19_OnePutPerSuccessfulMiss ==
    \A p \in Procs :
        Returned(p) =>
            /\ (Missed(p) /\ IsOk(result[p])) =>
                  /\ Len(Puts(p)) = 1
                  /\ log[p][Len(log[p])][1] = "put"
                  /\ PutOk(p)
                  /\ result[p] = Ok(to_string(Puts(p)[1][4]))
                  /\ Persisted(p, Puts(p)[1][2], Puts(p)[1][4])
            /\ ~Missed(p) => Puts(p) = <<>>

\* A row with an empty schema was there, the cache check passed it over and
\* the invocation stored and returned a schema with properties.
C19_Witness ==
    \E p \in Procs :
        /\ Returned(p)
        /\ GotRow(p)
        /\ Missed(p)
        /\ IsOk(result[p])
        /\ Len(Puts(p)) = 1
        /\ NonEmptyProperties(Puts(p)[1][4])

\* C20: at most one invocation is inside a store operation, between taking
\* the lock and dropping the guard, at any time.
C20_OneStoreOperationAtATime ==
    Cardinality(db_guard) <= 1

\* A store write holds the lock while a management command and nothing
\* else waits for it.
C20_Witness ==
    /\ 1 \in db_guard
    /\ pc[1] = "store"
    /\ pc[2] = "manage"

(***************************************************************************)
(* Two invocations at once.                                                *)
(***************************************************************************)
\* The step is the store write of invocation p.
PutStep(p) == pc[p] = "store" /\ pc'[p] = "done"
\* The names rows are stored under.
StoredNames(T) == {row.repo_name : row \in T}

\* C21: with two invocations running at once, every store write leaves
\* exactly one row for the key it wrote, holding the document and namespace
\* of that write, whatever row another invocation had put there; the rows
\* of a key change only at a write of that key or at a management command,
\* so the row a key ends with is the one of the last write.
C21_LastWriterWins ==
    [][/\ \A p \in Procs :
             PutStep(p) =>
                LET e == log'[p][Len(log'[p])]
                IN  /\ e[1] = "put"
                    /\ \E row \in table' :
                          /\ RowsOf(table', e[2]) = {row}
                          /\ row.schema_content = to_string(e[4])
                          /\ row.namespace = e[3]
       /\ \A name \in StoredNames(table) \cup StoredNames(table') :
             RowsOf(table', name) # RowsOf(table, name) =>
                \/ \E p \in Procs : PutStep(p) /\ to_store[p][1] = name
                \/ \E p \in Procs : pc[p] = "manage" /\ pc'[p] = "done"]_vars

\* Both invocations asked for the same key, both found no row, both wrote
\* the same key with different documents, and the table holds one of them.
C21_Witness ==
    /\ Returned(1) /\ Returned(2)
    /\ call[1] = call[2]
    /\ Missed(1) /\ Missed(2)
    /\ ~GotRow(1) /\ ~GotRow(2)
    /\ Len(Puts(1)) = 1 /\ Len(Puts(2)) = 1
    /\ Puts(1)[1][2] = Puts(2)[1][2]
    /\ Puts(1)[1][4] # Puts(2)[1][4]
    /\ SearchFound(1)
    /\ Cardinality(RowsOf(table, Puts(1)[1][2])) = 1
    /\ Persisted(2, Puts(2)[1][2], Puts(2)[1][4])

(***************************************************************************)
(* Reading the log of fetches: <<tag, chart_name, helm, directory before,  *)
(* directory after, result>>.                                              *)
(***************************************************************************)
FetchEvents(p) == SelectSeq(log[p], LAMBDA e : e[1] = "fetch")
ProbeEvents(p) == SelectSeq(log[p], LAMBDA e : e[1] = "probe")

\* C22: when a call of pull_chart_and_extract_schema has returned, whatever
\* its outcome, there is no "temp-charts" directory.
C22_FetchAlwaysCleansUp ==
    \A p \in Procs :
        \A i \in 1..Len(log[p]) :
            log[p][i][1] = "fetch" => log[p][i][5] = {}

\* C23: a call of pull_chart_and_extract_schema returns an error with the
\* diagnostic text of helm in it when helm pull could not be run or exited
\* non-zero; the canonical empty schema, as a success, when the pull
\* succeeded and values.schema.json is missing or is not JSON; and the
\* parsed document when it is JSON.
C23_FetchOutcomes ==
    \A p \in Procs :
        \A i \in 1..Len(log[p]) :
            log[p][i][1] = "fetch" =>
                LET helm == log[p][i][3]
                    r == log[p][i][6]
                IN  /\ helm.pull[1] \in {"err", "exit"} =>
                          /\ IsErr(r)
                          /\ \E k \in 1..Len(r[2]) : r[2][k] = helm.pull[2]
                    /\ (helm.pull[1] = "ok" /\ helm.file[1] = "missing") =>
                          r = Ok(create_empty_schema)
                    /\ (helm.pull[1] = "ok" /\ helm.file = <<"text", NotJson>>) =>
                          r = Ok(create_empty_schema)
                    /\ (helm.pull[1] = "ok" /\ helm.file[1] = "text" /\ helm.file[2] # NotJson) =>
                          /\ IsOk(r)
                          /\ to_string(r[2]) = helm.file[2]

\* One fetch met a chart without schema file, and the next one a chart whose
\* schema file is JSON.
C23_Witness ==
    \E p \in Procs :
        /\ Len(FetchEvents(p)) = 2
        /\ FetchEvents(p)[1][3].file = <<"missing">>
        /\ FetchEvents(p)[1][6] = Ok(create_empty_schema)
        /\ FetchEvents(p)[2][6] = Ok(DeclaredSchema("A"))

\* The answer of the search is a failure: non-zero exit or not run at all.
SearchRefused(helm) == helm.search[1] \in {"exit", "err"}

\* C24: a call of try_repo_for_chart whose search exits non-zero or cannot
\* be run returns an error of the search and leaves "temp-charts" as it
\* was, whatever helm pull would have done; every call that returns what the
\* pull returns, or changes the directory, had a search that succeeded.
C24_FetchOnlyAfterSearchSucceeded ==
    \A p \in Procs :
        \A i \in 1..Len(log[p]) :
            log[p][i][1] = "probe" =>
                LET helm == log[p][i][3]
                    r == log[p][i][6]
                IN  /\ SearchRefused(helm) =>
                          /\ IsErr(r)
                          /\ r[2][1] \in {"Chart ", "Failed to execute helm search: "}
                          /\ r[2][Len(r[2])] = helm.search[2]
                          /\ log[p][i][5] = log[p][i][4]
                    /\ (IsOk(r) \/ log[p][i][5] # log[p][i][4]) => helm.search = <<"ok">>

\* The search said no for a chart helm pull would have fetched, in a
\* directory that held another chart.
C24_Witness ==
    \E p \in Procs :
        \E i \in 1..Len(log[p]) :
            /\ log[p][i][1] = "probe"
            /\ log[p][i][3].search = <<"exit", "not found">>
            /\ log[p][i][3].pull = <<"ok">>
            /\ log[p][i][2] = "nginx"
            /\ log[p][i][4] = {<<"redis", <<"text", NotJson>>>>}
            /\ log[p][i][5] = log[p][i][4]

\* What `helm repo list` answered.
ListingOutput(p) == Events(p, "repo_list")[1][3]
ListingFailed(p) == Did(p, "repo_list") /\ ListingOutput(p)[1] \in {"err", "exit"}

SynthOutput(p) == log[p][1][2]
\* helm printed JSON, and the call has returned.
Synthesized(p) ==
    /\ pc[p] = "done"
    /\ log[p] # <<>>
    /\ log[p][1][1] = "synth"
    /\ SynthOutput(p)[1] = "ok"
    /\ from_str_ok(SynthOutput(p)[2])
SynthInput(p) == from_str(SynthOutput(p)[2])
\* The `properties` of the document the call returned.
SynthProperties(p) == Member(result[p][2], "properties")
Names(obj) == [i \in 1..Len(obj[2]) |-> obj[2][i][1]]
IsScalar(v) == v[1] \in {"str", "int", "float", "bool", "null"}
ScalarSchema(ty, v) == JObj(<< <<"default", v>>, <<"type", JStr(ty)>> >>)
\* The number is a whole number, within i64 or not.
IntegerValued(v) == v[1] = "int" \/ v = BigInteger

\* The property schema of a scalar, with whole numbers typed integer.
ScalarByValue(v) ==
    CASE v[1] = "str" -> ScalarSchema("string", v)
      [] v[1] \in {"int", "float"} ->
            ScalarSchema(IF IntegerValued(v) THEN "integer" ELSE "number", v)
      [] v[1] = "bool" -> ScalarSchema("boolean", v)
      [] v[1] = "null" -> ScalarSchema("string", JNull)

\* The property schema of a scalar, with the numbers that are an i64 typed
\* integer.
ScalarByWidth(v) ==
    CASE v[1] = "str" -> ScalarSchema("string", v)
      [] v[1] = "int" -> ScalarSchema("integer", v)
      [] v[1] = "float" -> ScalarSchema("number", v)
      [] v[1] = "bool" -> ScalarSchema("boolean", v)
      [] v[1] = "null" -> ScalarSchema("string", JNull)

\* The property schema of a value: that of a scalar, and for an array the
\* schema of its first element as `items`.
ItemsOf(v) ==
    IF v[2] = <<>> THEN JObj(<< <<"type", JStr("string")>> >>)
    ELSE IF IsScalar(v[2][1]) THEN ScalarByWidth(v[2][1])
    ELSE JObj(<< <<"type", JStr(IF IsObject(v[2][1]) THEN "object" ELSE "array")>> >>)

\* C26: a member that is an array gets {type: array, items, default: the
\* array}, items being {type: string} for the empty array and the property
\* schema of the first element otherwise ({type: integer, default: 80} for
\* [80, 443]; a schema of type object or array for an element of that kind).
C26_ArrayItemsFromFirstElement ==
    \A p \in Procs :
        (Synthesized(p) /\ IsObject(SynthInput(p))) =>
            \A i \in 1..Len(SynthInput(p)[2]) :
                LET key == SynthInput(p)[2][i][1]
                    val == SynthInput(p)[2][i][2]
                    prop == Member(SynthProperties(p), key)
                IN  val[1] = "arr" =>
                        /\ HasMember(SynthProperties(p), key)
                        /\ Names(prop) = <<"default", "items", "type">>
                        /\ Member(prop, "type") = JStr("array")
                        /\ Member(prop, "default") = val
                        /\ IF val[2] = <<>> \/ IsScalar(val[2][1])
                           THEN Member(prop, "items") = ItemsOf(val)
                           ELSE /\ HasMember(Member(prop, "items"), "type")
                                /\ Member(Member(prop, "items"), "type") = Member(ItemsOf(val), "type")

\* The scalar members of an object, each with the property schema `rule`
\* gives it, one level down included.
ScalarsTyped(properties, value, byValue) ==
    \A i \in 1..Len(value[2]) :
        LET key == value[2][i][1]
            val == value[2][i][2]
        IN  IsScalar(val) =>
                /\ HasMember(properties, key)
                /\ Member(properties, key) = IF byValue THEN ScalarByValue(val) ELSE ScalarByWidth(val)

\* The members of `value` that are objects have their own scalar members
\* typed in the `properties` of their property schema.
NestedScalarsTyped(properties, value, byValue) ==
    \A i \in 1..Len(value[2]) :
        LET key == value[2][i][1]
            val == value[2][i][2]
        IN  IsObject(val) =>
                /\ HasMember(properties, key)
                /\ HasMember(Member(properties, key), "properties")
                /\ ScalarsTyped(Member(Member(properties, key), "properties"), val, byValue)

\* C27, as claimed: the document generated from a values object has one
\* property per member, with the same names; a string member is typed
\* string, a whole number integer, any other number number, a boolean
\* boolean, null string with default null, each with the value as default,
\* at the top and in nested objects.
C27_ScalarsTypedByValue ==
    \A p \in Procs :
        (Synthesized(p) /\ IsObject(SynthInput(p))) =>
            /\ IsOk(result[p])
            /\ Names(SynthProperties(p)) = Names(SynthInput(p))
            /\ ScalarsTyped(SynthProperties(p), SynthInput(p), TRUE)
            /\ NestedScalarsTyped(SynthProperties(p), SynthInput(p), TRUE)

\* C27, amended: ... a number that fits an i64 is typed integer and every
\* other number, a whole number above i64::MAX included, is typed number.
C27_ScalarsTypedByWidth ==
    \A p \in Procs :
        (Synthesized(p) /\ IsObject(SynthInput(p))) =>
            /\ IsOk(result[p])
            /\ Names(result[p][2]) = <<"properties", "type">>
            /\ Member(result[p][2], "type") = JStr("object")
            /\ Names(SynthProperties(p)) = Names(SynthInput(p))
            /\ ScalarsTyped(SynthProperties(p), SynthInput(p), FALSE)
            /\ NestedScalarsTyped(SynthProperties(p), SynthInput(p), FALSE)

\* A whole number above i64::MAX next to an object with a null member.
C27_Witness ==
    \E p \in Procs :
        /\ Synthesized(p)
        /\ SynthInput(p) = JObj(<< <<"enabled", BigInteger>>,
                                   <<"replicas", JObj(<< <<"name", JNull>> >>)>> >>)
        /\ IsOk(result[p])
        /\ Member(Member(SynthProperties(p), "enabled"), "type") = JStr("number")

\* `schema` is the property schema of the value: for an object, type
\* object, the object as default and as properties one conforming property
\* schema per member, by name; for an array the type and the default.
RECURSIVE Conforms(_, _)
Conforms(schema, v) ==
    CASE IsScalar(v) -> schema = ScalarByWidth(v)
      [] v[1] = "arr" ->
            /\ Names(schema) = <<"default", "items", "type">>
            /\ Member(schema, "type") = JStr("array")
            /\ Member(schema, "default") = v
      [] v[1] = "obj" ->
            /\ Names(schema) = <<"default", "properties", "type">>
            /\ Member(schema, "type") = JStr("object")
            /\ Member(schema, "default") = v
            /\ IsObject(Member(schema, "properties"))
            /\ Names(Member(schema, "properties")) = Names(v)
            /\ \A i \in 1..Len(v[2]) :
                  Conforms(Member(Member(schema, "properties"), v[2][i][1]), v[2][i][2])

DbStep(p, tag) ==
    /\ pc[p] = "db"
    /\ Len(log'[p]) = Len(log[p]) + 1
    /\ log'[p][Len(log'[p])][1] = tag

\* C29: a clear that SQLite runs empties the table and returns the number
\* of rows it held; a delete that SQLite runs returns Ok and removes the
\* rows of its key and no other row, an absent key included (nothing
\* changes); a statement SQLite refuses changes nothing.
C29_ClearAndDelete ==
    [][\A p \in Procs :
          /\ DbStep(p, "clear") =>
                LET e == log'[p][Len(log'[p])]
                IN  IF IsOk(e[2])
                    THEN table' = {} /\ e[2] = Ok(Cardinality(table))
                    ELSE table' = table
          /\ DbStep(p, "delete") =>
                LET e == log'[p][Len(log'[p])]
                IN  IF e[3]
                    THEN /\ table' = table \ RowsOf(table, e[2])
                         /\ RowsOf(table', e[2]) = {}
                         /\ \A repo \in StoreRepos \ {e[2]} :
                               RowsOf(table', repo) = RowsOf(table, repo)
                    ELSE table' = table]_vars

\* Of two rows one was deleted, and deleted again when it was gone; the
\* other stayed and was counted by the clear that followed.
C29_Witness ==
    \E p \in Procs :
        /\ pc[p] = "db"
        /\ Len(log[p]) = 4
        /\ Cardinality(log[p][1][2]) = 2
        /\ log[p][2] = <<"delete", "A", TRUE>>
        /\ log[p][3] = <<"delete", "A", TRUE>>
        /\ log[p][4] = <<"clear", Ok(1)>>
        /\ table = {}

\* The entries of a listing are the rows of the table, each once, contents
\* parsed.
ListsEveryRow(listed, T) ==
    /\ Len(listed) = Cardinality(T)
    /\ \A row \in T :
          \E i \in 1..Len(listed) :
              /\ from_str_ok(row.schema_content)
              /\ listed[i] = [row EXCEPT !.schema_content = from_str(row.schema_content)]
\* The position in the log of the last write of the key of an entry, 0 for
\* a row the database was opened with.
WrittenAt(p, entry) == LastWrite(p, entry.repo_name, Len(log[p]) + 1)
\* The second of that write.
SecondOf(p, entry) == IF WrittenAt(p, entry) = 0 THEN 0 ELSE log[p][WrittenAt(p, entry)][6]
Parsable(T) == \A row \in T : from_str_ok(row.schema_content)

\* C30, as claimed: a listing that SQLite runs over rows that parse returns
\* every row once, an entry written later before every entry written
\* earlier; a put that replaces a row makes it the most recent one.
C30_ListedMostRecentWriteFirst ==
    [][\A p \in Procs :
          (DbStep(p, "list") /\ ~log'[p][Len(log'[p])][3] /\ Parsable(table)) =>
              LET e == log'[p][Len(log'[p])]
              IN  /\ IsOk(e[2])
                  /\ ListsEveryRow(e[2][2], table)
                  /\ \A i, j \in 1..Len(e[2][2]) :
                        WrittenAt(p, e[2][2][i]) > WrittenAt(p, e[2][2][j]) => i < j]_vars

\* C30, amended: a listing returns every row once, ordered by created_at
\* descending, created_at being the second of the last put of the key (a
\* put that replaces a row included): of two entries written in different
\* seconds the one written later comes first, entries written in the same
\* second come in either order.  A row whose content is not JSON makes the
\* listing an error.
C30_ListedByCreatedAtDesc ==
    [][\A p \in Procs :
          DbStep(p, "list") =>
              LET e == log'[p][Len(log'[p])]
              IN  /\ table' = table
                  /\ (~e[3] /\ ~Parsable(table)) =>
                        IsErr(e[2]) /\ e[2][2][1] = "Failed to collect results: "
                  /\ (~e[3] /\ Parsable(table)) =>
                        /\ IsOk(e[2])
                        /\ ListsEveryRow(e[2][2], table)
                        /\ \A i \in 1..Len(e[2][2]) :
                              e[2][2][i].created_at = SecondOf(p, e[2][2][i])
                        /\ \A i, j \in 1..Len(e[2][2]) :
                              (/\ WrittenAt(p, e[2][2][i]) > WrittenAt(p, e[2][2][j])
                               /\ SecondOf(p, e[2][2][i]) # SecondOf(p, e[2][2][j])) => i < j]_vars

\* The database was opened with two rows; the put that replaced the row of
\* A moved it to the front of the listing.
C30_Witness ==
    \E p \in Procs :
        /\ pc[p] = "db"
        /\ Len(log[p]) = 3
        /\ Cardinality(log[p][1][2]) = 2
        /\ log[p][2][1] = "put" /\ log[p][2][2] = "A" /\ log[p][2][6] = 1
        /\ log[p][3][1] = "list"
        /\ IsOk(log[p][3][2])
        /\ Len(log[p][3][2][2]) = 2
        /\ log[p][3][2][2][1].repo_name = "A"
        /\ log[p][3][2][2][1].created_at = 1
        /\ log[p][3][2][2][2].created_at = 0

(***************************************************************************)
(* get_schema_for_chart.mod.rs: check_cached_schema on its own, on a       *)
(* database file whose rows hold documents of every shape.  log is the     *)
(* sequence of checks made: <<"check", repo, fails, cached>>.              *)
(***************************************************************************)
MaxChecks == 2

\* Documents a row may hold: properties an object with members, without
\* members, an array, null, a string; no properties in an object with
\* members and without; an array, a string, null.
CachedDocs ==
    {DeclaredSchema("A"), create_empty_schema,
     JObj(<< <<"properties", JArr(<<JStr("web")>>)>>, <<"type", JStr("object")>> >>),
     JObj(<< <<"properties", JNull>> >>),
     JObj(<< <<"properties", JStr("web")>> >>),
     JObj(<< <<"replicas", JInt(3)>> >>),
     JObj(<<>>),
     JArr(<<JInt(3)>>),
     JStr("web"),
     JNull}

CachedRows(repo) ==
    {[chart_name |-> "nginx", chart_version |-> "1.0.0", repo_name |-> repo,
      namespace |-> None, schema_content |-> to_string(doc), created_at |-> 0] :
        doc \in CachedDocs}

CachedTables ==
    {T \in SUBSET UNION {CachedRows(repo) : repo \in StoreRepos} :
        \A r1 \in T, r2 \in T : r1.repo_name = r2.repo_name => r1 = r2}

InitCache ==
    /\ table \in CachedTables
    /\ ncalls = 0
    /\ pc = [p \in {1} |-> "cache"]
    /\ call = [p \in {1} |-> NoCall]
    /\ repos_to_try = [p \in {1} |-> <<>>]
    /\ idx = [p \in {1} |-> 0]
    /\ last_error = [p \in {1} |-> <<>>]
    /\ to_store = [p \in {1} |-> NoStore]
    /\ result = [p \in {1} |-> NoResult]
    /\ log = [p \in {1} |-> <<>>]
    /\ db_guard = {}
    /\ temp_charts = {}
    /\ clock = 0

CheckCache(p) ==
    /\ pc[p] = "cache"
    /\ Len(log[p]) < MaxChecks
    /\ \E repo \in StoreRepos, fails \in BOOLEAN :
          LET cached == check_cached_schema(table, "nginx", "1.0.0", repo, fails)
          IN  log' = [log EXCEPT ![p] = Append(log[p], <<"check", repo, fails, cached>>)]
    /\ UNCHANGED <<table, ncalls, pc, call, repos_to_try, idx, last_error, to_store, result,
                   db_guard, temp_charts, clock>>

NextCache == \E p \in Procs : CheckCache(p)

SpecCache == InitCache /\ [][NextCache]_vars

(***************************************************************************)
(* utils.rs: is_network_error on its own, applied to the errors            *)
(* try_repo_for_chart makes of names and diagnostics that hold the words   *)
(* in other case, in parts, and not at all.  log is the sequence of        *)
(* <<"classify", message, is_network_error(message)>>.                     *)
(***************************************************************************)
MaxClassified == 2

ClassifyRepos == {"A", "network-tools", "Network"}
ClassifyCharts == {"nginx", "connection-pool"}
ClassifyVersions == {"1.0.0", "1.0.0-timeout"}
Diagnostics ==
    {"not found", "connection refused", "Connection refused", "i/o timeout", "TIMEOUT",
     "network is unreachable", "net work", "timed out"}

\* helm failing at the search or at the pull, saying d.
FailingAnswers ==
    {[search |-> <<"err", d>>, pull |-> NA, file |-> NA, left |-> FALSE] : d \in Diagnostics}
    \cup {[search |-> <<"exit", d>>, pull |-> NA, file |-> NA, left |-> FALSE] : d \in Diagnostics}
    \cup {[search |-> <<"ok">>, pull |-> <<"exit", d>>, file |-> NA, left |-> FALSE] :
              d \in Diagnostics}
    \cup {[search |-> <<"ok">>, pull |-> <<"err", d>>, file |-> NA, left |-> FALSE] :
              d \in Diagnostics}

InitClassify ==
    /\ table = {}
    /\ ncalls = 0
    /\ pc = [p \in {1} |-> "classify"]
    /\ call = [p \in {1} |-> NoCall]
    /\ repos_to_try = [p \in {1} |-> <<>>]
    /\ idx = [p \in {1} |-> 0]
    /\ last_error = [p \in {1} |-> <<>>]
    /\ to_store = [p \in {1} |-> NoStore]
    /\ result = [p \in {1} |-> NoResult]
    /\ log = [p \in {1} |-> <<>>]
    /\ db_guard = {}
    /\ temp_charts = {}
    /\ clock = 0

\* search.rs:22-23: the error of try_repo_for_chart handed to is_network_error
Classify(p) ==
    /\ pc[p] = "classify"
    /\ Len(log[p]) < MaxClassified
    /\ \E repo \in ClassifyRepos, chart \in ClassifyCharts, version \in ClassifyVersions,
          helm \in FailingAnswers :
          LET e == try_repo_for_chart(repo, chart, version, helm)[2]
          IN  log' = [log EXCEPT ![p] = Append(log[p], <<"classify", e, is_network_error(e)>>)]
    /\ UNCHANGED <<table, ncalls, pc, call, repos_to_try, idx, last_error, to_store, result,
                   db_guard, temp_charts, clock>>

NextClassify == \E p \in Procs : Classify(p)

SpecClassify == InitClassify /\ [][NextClassify]_vars

(***************************************************************************)
(* utils.rs: get_available_repos on the text helm prints.  The standard    *)
(* output is a string; lines, trim and split_whitespace are computed on    *)
(* its characters.  log holds one <<"repos", requested_repo, answer,       *)
(* <<available_repos, requested_repo_exists>>>>.                           *)
(***************************************************************************)
\* char::is_whitespace, for the characters that occur
IsWhite(c) == c \in {" ", "\t", "\r"}

\* str::lines: split after every "\n"; a last line without "\n" counts, and
\* "\r" goes with the "\n" it precedes.
RECURSIVE lines_from(_, _)
lines_from(text, start) ==
    IF start > Len(text) THEN <<>>
    ELSE LET ends == {i \in start..Len(text) : SubSeq(text, i, i) = "\n"}
         IN  IF ends = {}
             THEN <<SubSeq(text, start, Len(text))>>
             ELSE LET nl == CHOOSE i \in ends : \A j \in ends : i <= j
                      last == IF nl > start /\ SubSeq(text, nl - 1, nl - 1) = "\r"
                              THEN nl - 2 ELSE nl - 1
                  IN  <<SubSeq(text, start, last)>> \o lines_from(text, nl + 1)

lines(text) == lines_from(text, 1)

\* line.trim().is_empty()
trim_is_empty(line) == \A i \in 1..Len(line) : IsWhite(SubSeq(line, i, i))

\* str::split_whitespace, collected; word is the token being read
RECURSIVE split_from(_, _, _)
split_from(line, i, word) ==
    IF i > Len(line) THEN (IF word = "" THEN <<>> ELSE <<word>>)
    ELSE IF IsWhite(SubSeq(line, i, i))
    THEN (IF word = "" THEN <<>> ELSE <<word>>) \o split_from(line, i + 1, "")
    ELSE split_from(line, i + 1, word \o SubSeq(line, i, i))

split_whitespace(line) == split_from(line, 1, "")

\* utils.rs:25-37, the loop over the lines; acc is
\* <<available_repos, requested_repo_exists>>
RECURSIVE repo_lines_loop(_, _, _)
repo_lines_loop(rest, requested_repo, acc) ==
    IF rest = <<>> THEN acc
    ELSE IF trim_is_empty(Head(rest))
    THEN repo_lines_loop(Tail(rest), requested_repo, acc)
    ELSE LET parts == split_whitespace(Head(rest))
         IN  IF Len(parts) >= 1
             THEN repo_lines_loop(Tail(rest), requested_repo,
                                  <<Append(acc[1], parts[1]),
                                    acc[2] \/ parts[1] = requested_repo>>)
             ELSE repo_lines_loop(Tail(rest), requested_repo, acc)

\* The variant that does not skip the first line.
get_available_repos_from_stdout_no_skip(requested_repo, answer) ==
    IF answer[1] = "ok"
    THEN repo_lines_loop(lines(answer[2]), requested_repo, <<<<>>, FALSE>>)
    ELSE <<<<>>, FALSE>>

\* utils.rs:19-41; answer is <<"err">> (helm did not run), <<"exit">> (it
\* failed) or <<"ok", stdout>>
get_available_repos_from_stdout(requested_repo, answer) ==
    IF answer[1] = "ok"
    THEN LET all == lines(answer[2])
             skipped == IF all = <<>> THEN <<>> ELSE Tail(all)
         IN  repo_lines_loop(skipped, requested_repo, <<<<>>, FALSE>>)
    ELSE <<<<>>, FALSE>>

MaxLines == 4

\* Lines helm may print: the header, entries with one and with several
\* columns, indented, ending in a carriage return, and blank ones.
RepoListLines ==
    {"NAME \tURL", "A https://charts.example/a", "  B\thttps://charts.example/b ",
     "", " \t", "X", "A", "X\r"}

RECURSIVE Joined(_)
Joined(ls) ==
    IF ls = <<>> THEN ""
    ELSE IF Len(ls) = 1 THEN ls[1]
    ELSE ls[1] \o "\n" \o Joined(Tail(ls))

\* with and without the last newline
RepoListStdouts ==
    {""} \cup
    UNION {{Joined(ls), Joined(ls) \o "\n"} :
               ls \in UNION {[1..n -> RepoListLines] : n \in 1..MaxLines}}

StdoutAnswers == {<<"err">>, <<"exit">>} \cup {<<"ok", text>> : text \in RepoListStdouts}

RepoListRequests == {"A", "B", "X", "NAME", "https://charts.example/a"}

InitRepoList ==
    /\ table = {}
    /\ ncalls = 0
    /\ pc = [p \in {1} |-> "repo_list"]
    /\ call = [p \in {1} |-> NoCall]
    /\ repos_to_try = [p \in {1} |-> <<>>]
    /\ idx = [p \in {1} |-> 0]
    /\ last_error = [p \in {1} |-> <<>>]
    /\ to_store = [p \in {1} |-> NoStore]
    /\ result = [p \in {1} |-> NoResult]
    /\ log = [p \in {1} |-> <<>>]
    /\ db_guard = {}
    /\ temp_charts = {}
    /\ clock = 0

\* main.rs:39-40: get_available_repos called with the requested name
RunRepoList(p) ==
    /\ pc[p] = "repo_list"
    /\ \E requested_repo \in RepoListRequests, answer \in StdoutAnswers :
          log' = [log EXCEPT ![p] =
                      << <<"repos", requested_repo, answer,
                           get_available_repos_from_stdout(requested_repo, answer)>> >>]
    /\ pc' = [pc EXCEPT ![p] = "done"]
    /\ UNCHANGED <<table, ncalls, call, repos_to_try, idx, last_error, to_store, result,
                   db_guard, temp_charts, clock>>

NextRepoList == \E p \in Procs : RunRepoList(p)

SpecRepoList == InitRepoList /\ [][NextRepoList]_vars

(***************************************************************************)
(* Requests for several releases and namespaces of one chart, one after    *)
(* the other, all naming the same repository.                              *)
(***************************************************************************)
TenantRepos == {"A"}
TenantNamespaces == {"prod", "staging"}
TenantReleases == {"web", "api"}

CallTenant(p) == CallAmong(p, TenantRepos, TenantNamespaces, TenantReleases)

NextTenants ==
    \/ \E p \in Procs : CallTenant(p)
    \/ \E p \in Procs : CacheCheck(p)
    \/ \E p \in Procs : Discover(p)
    \/ \E p \in Procs : TryRepo(p)
    \/ \E p \in Procs : Values(p)
    \/ \E p \in Procs : Store(p)

SpecTenants == Init /\ [][NextTenants]_vars

(***************************************************************************)
(* chart_operations.rs: two calls of pull_chart_and_extract_schema at      *)
(* once.  Each runs on its own task; helm is a process of its own, and     *)
(* nothing orders the pull, the read of values.schema.json and the         *)
(* removal of "temp-charts" of one call with respect to those of the       *)
(* other.  log[p] starts with what helm would answer to p's pull into an   *)
(* empty directory; pc[p] is the statement p is at.                        *)
(***************************************************************************)
Fetchers == {1, 2}

\* What helm would answer, the directory being empty.
RaceAnswers ==
    {[search |-> <<"ok">>, pull |-> <<"ok">>, file |-> f, left |-> FALSE] :
        f \in {<<"missing">>, <<"text", to_string(DeclaredSchema("A"))>>}}
    \cup {[search |-> <<"ok">>, pull |-> <<"exit", "not found">>, file |-> NA, left |-> FALSE]}

\* What helm answers with the directory as it is: it refuses to untar over
\* a chart directory that exists.
helm_answer(dir, chart_name, helm) ==
    IF HasChartDir(dir, chart_name) /\ helm.pull[1] = "ok"
    THEN [helm EXCEPT !.pull = <<"exit", "already exists">>, !.file = NA]
    ELSE helm

\* fs::read_to_string("temp-charts/<chart_name>/values.schema.json")
read_to_string(dir, chart_name) ==
    IF HasChartDir(dir, chart_name)
    THEN (CHOOSE e \in dir : e[1] = chart_name)[2]
    ELSE <<"missing">>

InitRace ==
    /\ table = {}
    /\ ncalls = 0
    /\ pc = [p \in Fetchers |-> "pull"]
    /\ call \in [Fetchers -> {[NoCall EXCEPT !.chart_name = c, !.chart_version = "1.0.0",
                                             !.repo_name = "A"] : c \in FetchCharts}]
    /\ repos_to_try = [p \in Fetchers |-> <<>>]
    /\ idx = [p \in Fetchers |-> 0]
    /\ last_error = [p \in Fetchers |-> <<>>]
    /\ to_store = [p \in Fetchers |-> NoStore]
    /\ result = [p \in Fetchers |-> NoResult]
    /\ log \in [Fetchers -> {<< <<"helm", helm>> >> : helm \in RaceAnswers}]
    /\ db_guard = {}
    /\ temp_charts = {}
    /\ clock = 0

\* chart_operations.rs:39-52, 82-89: helm pull ends
RacePull(p) ==
    /\ pc[p] = "pull"
    /\ LET c == call[p]
           helm == helm_answer(temp_charts, c.chart_name, log[p][1][2])
       IN  /\ temp_charts' = helm_pull(temp_charts, c.chart_name, helm)
           /\ log' = [log EXCEPT ![p] = Append(log[p], <<"pulled", helm.pull>>)]
           /\ IF helm.pull[1] = "ok"
              THEN /\ pc' = [pc EXCEPT ![p] = "read"]
                   /\ UNCHANGED result
              ELSE /\ pc' = [pc EXCEPT ![p] = "done"]
                   /\ result' = [result EXCEPT ![p] =
                                    pull_chart_and_extract_schema(c.repo_name, c.chart_name,
                                                                  c.chart_version, helm)]
    /\ UNCHANGED <<table, ncalls, call, repos_to_try, idx, last_error, to_store, db_guard, clock>>

\* chart_operations.rs:59-66, 74: the schema file is read and parsed
RaceRead(p) ==
    /\ pc[p] = "read"
    /\ LET c == call[p]
           file == read_to_string(temp_charts, c.chart_name)
       IN  /\ log' = [log EXCEPT ![p] = Append(log[p], <<"read", HasChartDir(temp_charts, c.chart_name), file>>)]
           /\ result' = [result EXCEPT ![p] =
                            pull_chart_and_extract_schema(c.repo_name, c.chart_name,
                                c.chart_version, [log[p][1][2] EXCEPT !.file = file])]
    /\ pc' = [pc EXCEPT ![p] = "remove"]
    /\ UNCHANGED <<table, ncalls, call, repos_to_try, idx, last_error, to_store, db_guard,
                   temp_charts, clock>>

\* chart_operations.rs:70, 77: the directory is removed and the call returns
RaceRemove(p) ==
    /\ pc[p] = "remove"
    /\ temp_charts' = remove_dir_all(temp_charts)
    /\ pc' = [pc EXCEPT ![p] = "done"]
    /\ UNCHANGED <<table, ncalls, call, repos_to_try, idx, last_error, to_store, result, log,
                   db_guard, clock>>

NextRace ==
    \/ \E p \in Procs : RacePull(p)
    \/ \E p \in Procs : RaceRead(p)
    \/ \E p \in Procs : RaceRemove(p)

SpecRace == InitRace /\ [][NextRace]_vars

(***************************************************************************)
(* What removes an entry.                                                  *)
(***************************************************************************)
\* The step is management command p finishing, and the command clears the
\* table or deletes the entry of `repo`.
Removes(p, repo) ==
    /\ pc[p] = "manage"
    /\ pc'[p] = "done"
    /\ \/ log'[p][1][1] = "clear"
       \/ log'[p][1][1] = "delete" /\ log'[p][1][2] = repo

\* C31: a key that has a row keeps having one (the row may be replaced)
\* over every step of concurrent resolutions, with their gets and writes,
\* and of listings; it loses its row only at a step of a clear command or
\* of a delete command for that key.
C31_EntriesPersist ==
    [][\A name \in StoredNames(table) :
          RowsOf(table', name) = {} => \E p \in Procs : Removes(p, name)]_vars

\* One invocation resolved a schema and wrote it; the other listed the
\* cache afterwards and got that entry, and the table still holds it.
C31_Witness ==
    \E p, q \in Procs :
        /\ Returned(p) /\ Len(Puts(p)) = 1 /\ PutOk(p)
        /\ pc[q] = "done"
        /\ Len(log[q]) = 1
        /\ log[q][1][1] = "list"
        /\ IsOk(log[q][1][2])
        /\ Len(log[q][1][2][2]) = 1
        /\ log[q][1][2][2][1].repo_name = Puts(p)[1][2]
        /\ RowsOf(table, Puts(p)[1][2]) # {}
(***************************************************************************)
(* What the cache check takes for a hit.                                   *)
(***************************************************************************)
\* The document the row of `repo` holds.
DocumentOf(T, repo) == from_str((CHOOSE row \in RowsOf(T, repo) : TRUE).schema_content)

\* properties is an object with members, or there is no properties member
\* and the document is an object with members.
NonEmptyDocument(doc) ==
    IF HasMember(doc, "properties")
    THEN IsObject(Member(doc, "properties")) /\ Member(doc, "properties")[2] # <<>>
    ELSE IsObject(doc) /\ doc[2] # <<>>

\* C32: the check of a key that has a row (the statement running) is a hit
\* exactly when the document of the row has a properties member that is an
\* object with members, or has no properties member and is itself an
\* object with members.
C32_HitExactlyWhenNonEmpty ==
    \A p \in Procs : \A i \in 1..Len(log[p]) :
        LET e == log[p][i]
        IN  (e[1] = "check" /\ ~e[3] /\ RowsOf(table, e[2]) # {}) =>
               (IsSome(e[4]) <=> NonEmptyDocument(DocumentOf(table, e[2])))
(***************************************************************************)
(* The stages of one invocation.                                           *)
(***************************************************************************)
\* The stage an event of the history belongs to: 1 cache check, 2 discovery
\* of repositories, 3 search, 4 synthesis from the values, 5 store write.
StageOf(e) ==
    CASE e[1] = "get" -> 1
      [] e[1] \in {"repo_list", "candidates"} -> 2
      [] e[1] \in {"search", "pull", "tried", "search_all"} -> 3
      [] e[1] = "values" -> 4
      [] e[1] = "put" -> 5

\* The event that ends each stage.
StageEnds == {"get", "candidates", "search_all", "values", "put"}

\* C33: in the history of an invocation the stages appear in the order
\* cache check, discovery, search, synthesis, store write, no event of an
\* earlier stage after one of a later stage; each stage ends at most once;
\* and the invocation is at a stage only when the stage before it has
\* ended: at discovery after the cache check, in the search after the
\* candidates are known and before the search returned, at the synthesis
\* right after the search returned, at the store write after discovery,
\* search or synthesis ended.
C33_StagesInOrderOnce ==
    \A p \in Procs :
        /\ \A i, j \in 1..Len(log[p]) : i < j => StageOf(log[p][i]) <= StageOf(log[p][j])
        /\ \A tag \in StageEnds : Len(Events(p, tag)) <= 1
        /\ Len(Events(p, "repo_list")) <= 1
        /\ pc[p] = "check" => log[p] = <<>>
        /\ pc[p] = "discover" => Len(log[p]) = 1 /\ log[p][1][1] = "get"
        /\ pc[p] = "search" =>
              /\ Did(p, "get") /\ Did(p, "candidates")
              /\ ~Did(p, "search_all")
              /\ log[p][Len(log[p])][1] \in {"candidates", "tried"}
        /\ pc[p] = "values" => log[p][Len(log[p])][1] = "search_all"
        /\ pc[p] = "store" =>
              /\ Did(p, "get") /\ Did(p, "candidates")
              /\ log[p][Len(log[p])][1] \in {"candidates", "search_all", "values"}
        /\ pc[p] = "done" => log[p][Len(log[p])][1] \in {"get", "put"}

\* An invocation went through the five stages: it checked the cache, found
\* repositories, searched two of them, read the values of the release and
\* wrote the schema.
C33_Witness ==
    \E p \in Procs :
        /\ Returned(p)
        /\ Did(p, "get") /\ Did(p, "repo_list") /\ Did(p, "search_all")
        /\ Did(p, "values") /\ Did(p, "put")
        /\ Len(Events(p, "tried")) = 2
        /\ log[p][Len(log[p])][1] = "put"
(***************************************************************************)
(* The order of the search.                                                *)
(***************************************************************************)
\* Every repository before position i failed with an error that is not
\* network-classified, so the loop reaches position i.
Reaches(p, i) ==
    \A j \in 1..(i - 1) : IsErr(Tries(p)[j]) /\ ~is_network_error(Tries(p)[j][2])

\* C34: a call of try_all_repos_for_chart tries the repositories from the
\* head of the list on, one after the other: the repositories tried are the
\* first Searched(p) of the list, each position that is tried was reached
\* by the failures before it, and the first repository that succeeds is the
\* last one tried and its schema is what the call returns, the empty schema
\* included, whatever the repositories after it would have answered.
C34_InOrderFirstSuccessReturns ==
    \A p \in Procs :
        (pc[p] = "done" /\ Did(p, "searched")) =>
            /\ Searched(p) \in 0..Len(repos_to_try[p])
            /\ \A i \in 1..Searched(p) : Reaches(p, i)
            /\ \A i \in 1..Len(repos_to_try[p]) :
                  (IsOk(Tries(p)[i]) /\ Reaches(p, i)) =>
                      /\ Searched(p) = i
                      /\ result[p] = Tries(p)[i]
            /\ IsOk(result[p]) =>
                  /\ Searched(p) >= 1
                  /\ result[p] = Tries(p)[Searched(p)]

\* The first of two repositories has the chart without a schema file, the
\* second declares a schema: only the first was tried and the empty schema
\* is returned.
C34_Witness ==
    \E p \in Procs :
        /\ pc[p] = "done"
        /\ Did(p, "searched")
        /\ Len(repos_to_try[p]) = 2
        /\ Helms(p)[1].file = <<"missing">>
        /\ Tries(p)[2] = Ok(DeclaredSchema(repos_to_try[p][2]))
        /\ Searched(p) = 1
        /\ result[p] = Ok(create_empty_schema)
(***************************************************************************)
(* What the classifier takes for a network error.                          *)
(***************************************************************************)
\* The message as one text.
RECURSIVE Text(_)
Text(msg) == IF msg = <<>> THEN "" ELSE Head(msg) \o Text(Tail(msg))

\* needle occurs in text, byte for byte.
IsSubstring(text, needle) ==
    \E i \in 1..(Len(text) - Len(needle) + 1) : SubSeq(text, i, i + Len(needle) - 1) = needle

NetworkWords == {"timeout", "network", "connection"}

\* C35: is_network_error says yes exactly for the messages whose text
\* holds "timeout", "network" or "connection" somewhere, in that case of
\* letters, be it in what the tool said or in the name of a repository, a
\* chart or a version; every other message is not a network error.
C35_NetworkExactlyOnSubstring ==
    \A p \in Procs : \A i \in 1..Len(log[p]) :
        LET e == log[p][i]
        IN  e[1] = "classify" =>
               (e[3] <=> \E needle \in NetworkWords : IsSubstring(Text(e[2]), needle))

\* A message that holds the word in the name of the repository only, the
\* tool saying "not found", was classified network; one whose only trace
\* of the words is "Connection refused" was not.
C35_Witness ==
    \E p \in Procs :
        /\ Len(log[p]) = 2
        /\ log[p][1] = <<"classify",
                         <<"Chart ", "network-tools", "/", "nginx", " version ", "1.0.0",
                           " not found in repository: ", "not found">>,
                         TRUE>>
        /\ log[p][2] = <<"classify",
                         <<"Failed to pull chart ", "Network", "/", "nginx", " version ",
                           "1.0.0", ": ", "Connection refused">>,
                         FALSE>>
(***************************************************************************)
(* The same request again.                                                 *)
(***************************************************************************)
\* Invocation p went past the cache check and returned a schema that has
\* properties.
ResolvedNonEmpty(p) ==
    /\ Returned(p)
    /\ Missed(p)
    /\ IsOk(result[p])
    /\ NonEmptyProperties(from_str(result[p][2]))

\* The step is the frontend asking again for what p just returned: same
\* chart, version and repository.
AsksAgain(p) ==
    /\ pc[p] = "done"
    /\ pc'[p] = "check"
    /\ call'[p].chart_name = call[p].chart_name
    /\ call'[p].chart_version = call[p].chart_version
    /\ call'[p].repo_name = call[p].repo_name

\* C36: when an invocation that missed the cache returned a schema with
\* properties and the same chart, version and repository are asked for
\* again, nothing having written in between, the cache check of the new
\* invocation finds that document and returns it.
C36_RepeatRequestHits ==
    [][\A p \in Procs :
          (ResolvedNonEmpty(p) /\ AsksAgain(p)) =>
              check_cached_schema(table', call'[p].chart_name, call'[p].chart_version,
                                  call'[p].repo_name, FALSE) = Some(result[p])]_vars
(***************************************************************************)
(* Whose schema a cache hit returns.                                       *)
(***************************************************************************)
\* The invocation returned from the cache check.
Hit(p) == Returned(p) /\ ~Missed(p)

\* The schema generate_schema_from_helm_values makes of the values of a
\* release.
SynthesizedFor(release_name) ==
    JObj(<< <<"properties", generate_schema_from_value(ReleaseValues(release_name))>>,
            <<"type", JStr("object")>> >>)

\* C37: an invocation that returns from the cache check returns the
\* document of the one row the table holds for its chart, version and
\* repository, whatever namespace that row was written with and whatever
\* namespace and release the invocation names; and a store write leaves
\* one row for its key, with the namespace of that write.
C37_HitDependsOnKeyOnly ==
    \A p \in Procs :
        /\ Hit(p) =>
              /\ GotRow(p)
              /\ \E row \in table :
                    /\ RowsOf(table, call[p].repo_name) = {row}
                    /\ result[p] = Ok(row.schema_content)
        /\ (Returned(p) /\ Did(p, "put") /\ PutOk(p)) =>
              \E row \in table :
                  /\ RowsOf(table, Puts(p)[1][2]) = {row}
                  /\ row.namespace = call[p].namespace
                  /\ row.schema_content = to_string(Puts(p)[1][4])

\* The schema made of the values of release web in namespace prod is
\* returned from the cache to a request that names release api in namespace
\* staging.
C37_Witness ==
    \E p \in Procs :
        /\ Hit(p)
        /\ call[p].release_name = Some("api")
        /\ call[p].namespace = Some("staging")
        /\ RowGot(p).namespace = Some("prod")
        /\ result[p] = Ok(to_string(SynthesizedFor("web")))
        /\ result[p] # Ok(to_string(SynthesizedFor("api")))
(***************************************************************************)
(* Two fetches at once.                                                    *)
(***************************************************************************)
\* What the call of p returns when it runs alone.
Alone(p) ==
    pull_chart_and_extract_schema(call[p].repo_name, call[p].chart_name,
                                  call[p].chart_version, log[p][1][2])

\* C38: of two calls of pull_chart_and_extract_schema running at once,
\* each returns what it would return alone, and each call that pulled its
\* chart finds the chart directory when it reads the schema file.
C38_ConcurrentFetchesIsolated ==
    \A p \in Procs :
        /\ pc[p] = "done" => result[p] = Alone(p)
        /\ \A i \in 1..Len(log[p]) : log[p][i][1] = "read" => log[p][i][2]
(***************************************************************************)
(* The lock and termination.                                               *)
(***************************************************************************)
\* The positions of an invocation of get_schema_for_chart that has not
\* returned, and those at which it waits for helm.
Resolving == {"check", "discover", "search", "values", "store"}
AtCommand == {"discover", "search", "values"}

\* A guard is alive only in an invocation that is at a store operation.
LockScoped == \A p \in db_guard : AtStoreOp(p) /\ pc[p] \notin AtCommand

\* An invocation that is not done has a step to take or waits for a lock
\* that its holder is about to release.
NoDeadlock ==
    \A p \in ConcProcs :
        (pc[p] \in Resolving \cup {"manage"}) =>
            \/ pc[p] \in AtCommand
            \/ p \in db_guard
            \/ db_guard = {}
            \/ \E q \in db_guard : AtStoreOp(q)

\* C39: a guard of the connection is alive only while its invocation is at
\* a store operation, never while it waits for helm; no invocation is ever
\* stuck; and, helm commands and statements ending and the lock being
\* handed out fairly, every invocation of get_schema_for_chart that was
\* started returns.
C39_LockScopedAndEveryCallReturns ==
    /\ [](LockScoped /\ NoDeadlock)
    /\ \A p \in ConcProcs : (pc[p] \in Resolving) ~> (pc[p] = "done")

\* One invocation holds the lock for its store write while the other,
\* past its search, waits for the lock to write.
C39_Witness ==
    /\ db_guard = {1}
    /\ pc[1] = "store"
    /\ pc[2] = "store"
    /\ Did(2, "search_all")
    /\ Did(1, "search_all")
(***************************************************************************)
(* The listing of the repositories.                                        *)
(***************************************************************************)
\* The positions at which a line of the text starts, and where the line
\* that starts at s ends (before its "\n").
Newlines(text) == {i \in 1..Len(text) : SubSeq(text, i, i) = "\n"}
LineStarts(text) == {s \in 1..Len(text) : s = 1 \/ (s - 1) \in Newlines(text)}
LineEnd(text, s) ==
    LET after == {i \in Newlines(text) : i >= s}
    IN  IF after = {} THEN Len(text)
        ELSE (CHOOSE i \in after : \A j \in after : i <= j) - 1

\* The starts of the non-blank lines after the first line.
Entries(text) ==
    {s \in LineStarts(text) :
        /\ s # 1
        /\ \E i \in s..LineEnd(text, s) : ~IsWhite(SubSeq(text, i, i))}

\* The first whitespace-separated token of the line that starts at s.
FirstToken(text, s) ==
    LET e == LineEnd(text, s)
        black == {i \in s..e : ~IsWhite(SubSeq(text, i, i))}
        a == CHOOSE i \in black : \A j \in black : i <= j
        b == CHOOSE i \in a..e :
                 /\ \A j \in a..i : j \in black
                 /\ (i + 1) \in black => i = e
    IN  SubSeq(text, a, b)

\* What the claim says the list is, for the answer <<"ok", text>>.
EntryTokens(text) ==
    LET starts == Entries(text)
        nth(k) == CHOOSE s \in starts : Cardinality({t \in starts : t < s}) = k - 1
    IN  [k \in 1..Cardinality(starts) |-> FirstToken(text, nth(k))]

\* The text as the listing of the other specifications: its lines, each a
\* sequence of words.
Words(text) == [i \in 1..Len(lines(text)) |-> split_whitespace(lines(text)[i])]

Occurs(name, list) == \E i \in 1..Len(list) : list[i] = name

\* C40: get_available_repos returns true exactly when the requested name
\* is in the list it returns, and the list is the first word of every
\* non-blank line after the first line of helm's output, in the order of
\* the output (nothing when helm did not run or failed).
C40_DiscoveryPairConsistent ==
    \A p \in Procs : \A i \in 1..Len(log[p]) :
        log[p][i][1] = "repos" =>
            LET requested_repo == log[p][i][2]
                answer == log[p][i][3]
                got == log[p][i][4]
            IN  /\ got[2] <=> Occurs(requested_repo, got[1])
                /\ got[1] = IF answer[1] = "ok" THEN EntryTokens(answer[2]) ELSE <<>>
                /\ answer[1] = "ok" =>
                       got = get_available_repos(requested_repo, <<"ok", Words(answer[2])>>)

\* helm printed the header, an indented entry, a blank line and an entry
\* that ends in a carriage return; the requested name is the last entry.
C40_Witness ==
    /\ pc[1] = "done"
    /\ Len(log[1]) = 1
    /\ log[1][1] = <<"repos", "X",
                     <<"ok", "NAME \tURL\n  B\thttps://charts.example/b \n \t\nX\r\n">>,
                     <<<<"B", "X">>, TRUE>> >>
====
